---- MODULE Spec2Model ----
(***************************************************************************)
(* Hetero SSHE logistic regression: the two-party training protocol of     *)
(* HeteroLRBase (hetero_lr_base.py) and the configuration check of         *)
(* LogisticRegressionParam (hetero_sshe_lr_param.py).                      *)
(*                                                                         *)
(* Two processes, GUEST and HOST, each run fit_binary on their own object. *)
(* They share nothing but the transfer channel.  Spec is a training run    *)
(* started from a configuration that passed check(); ParamSpec is check()  *)
(* applied to arbitrary configurations; LoadSpec adds load_model() to it;  *)
(* RerunSpec calls fit_binary again on objects that have finished a run.   *)
(***************************************************************************)
EXTENDS Integers, Sequences, FiniteSets, TLC

VARIABLES
    ALLOW_REVIEW_GUEST_ONLY, \* consts.ALLOW_REVIEW_GUEST_ONLY, the process-wide flag
    param_in,                \* the configuration as submitted (before check())
    model_param,             \* per party: the LogisticRegressionParam object
    check_result,            \* per party: outcome of check()
    dim,                     \* per party: length of its own weight vector
    numBatches,              \* number of batches the batch generator yields
    hasValidation,           \* whether init_validation_strategy returns a strategy
    pc,                      \* per party: position in fit_binary
    n_iter_,                 \* per party: epoch counter
    is_converged,            \* per party
    need_stop,               \* per party: last answer of validation_strategy.need_stop()
    batch_idx,               \* per party: index of the batch being processed
    w,                       \* per party: plaintext weights of the initializer
    w_self,                  \* per party: first share returned by share_init_model
    w_remote,                \* per party: second share
    new_w,                   \* per party: result of the last review_models
    model_weights,           \* per party: self.model_weights (None = <<>>)
    hosted_model_weights,    \* per party: self.hosted_model_weights (a list)
    last_models,             \* per party: the convergence snapshot
    labels,                  \* per party: self.labels (None = <<>>)
    rvi,                     \* per party: next statement of review_models
    rv_entry,                \* per party: state on entry of the current review_models
    reviews,                 \* per party: review_models calls completed in this epoch
    epochs,                  \* per party: epochs started
    decisions,               \* per party: (check_converge, need_stop) answers so far
    chan,                    \* per sender: messages sent and not yet received
    sent,                    \* per party: all messages sent, in order
    rcvd,                    \* per party: tags of all messages received
    overrides,               \* the abstract operations the running class overrides
    initializer,             \* per party: the vector self.initializer.init_model returns
    y,                       \* per party: result of the last cal_prediction
    z_res,                   \* per party: result of the last share_z
    grad_call,               \* per party: arguments of the last compute_gradient call
    pred_call,               \* per party: arguments of the last cal_prediction call
    batch_counts,            \* batch_data.count() of every batch the generator yields
    saves_best,              \* whether the validation strategy keeps the best model
    heap,                    \* per party: the list objects created for hosted_model_weights
    hosted_ref,              \* per party: the list object self.hosted_model_weights is bound to
    snapshots,               \* per party: the snapshots of this run, as they were when taken
    converge_calls,          \* per party: arguments of the check_converge calls of this run
    encoded_batch_num,       \* per party: self.encoded_batch_num (a list)
    runs                     \* per party: calls of fit_binary on this object

vars == << ALLOW_REVIEW_GUEST_ONLY, param_in, model_param, check_result, dim,
           numBatches, hasValidation, pc, n_iter_, is_converged, need_stop,
           batch_idx, w, w_self, w_remote, new_w, model_weights,
           hosted_model_weights, last_models, labels, rvi, rv_entry, reviews,
           epochs, decisions, chan, sent, rcvd, overrides, initializer, y, z_res,
           grad_call, pred_call, batch_counts, saves_best, heap, hosted_ref, snapshots,
           converge_calls, encoded_batch_num, runs >>

paramVars == << ALLOW_REVIEW_GUEST_ONLY, param_in, model_param, check_result >>

runVars == << dim, numBatches, hasValidation, pc, n_iter_, is_converged,
              need_stop, batch_idx, w, w_self, w_remote, new_w, model_weights,
              hosted_model_weights, last_models, labels, rvi, rv_entry, reviews,
              epochs, decisions, chan, sent, rcvd >>

\* fixed by the class that runs and by the data
envVars == << overrides, initializer, batch_counts, saves_best >>

\* results and arguments of the calls of one batch step
callVars == << y, z_res, grad_call, pred_call >>

\* the list objects behind self.hosted_model_weights
refVars == << heap, hosted_ref >>

\* what check_converge was given and what the snapshots held
convVars == << snapshots, converge_calls >>

\* attributes that outlive a call of fit_binary
lifeVars == << encoded_batch_num, runs >>

(***************************************************************************)
(* Bounds of the model.                                                    *)
(***************************************************************************)
MaxIter == 2
MaxBatches == 2
MaxDim == 3
FieldQ == 4
MaxRuns == 2

(***************************************************************************)
(* Roles.                                                                  *)
(***************************************************************************)
GUEST == "guest"
HOST == "host"
Roles == {GUEST, HOST}
Peer(p) == IF p = GUEST THEN HOST ELSE GUEST

None == << >>
Some(v) == << v >>

(***************************************************************************)
(* Strings that are case-folded by the code are sequences of characters.   *)
(***************************************************************************)
UpperToLower ==
    "A" :> "a" @@ "B" :> "b" @@ "C" :> "c" @@ "D" :> "d" @@ "E" :> "e" @@
    "F" :> "f" @@ "G" :> "g" @@ "H" :> "h" @@ "I" :> "i" @@ "J" :> "j" @@
    "K" :> "k" @@ "L" :> "l" @@ "M" :> "m" @@ "N" :> "n" @@ "O" :> "o" @@
    "P" :> "p" @@ "Q" :> "q" @@ "R" :> "r" @@ "S" :> "s" @@ "T" :> "t" @@
    "U" :> "u" @@ "V" :> "v" @@ "W" :> "w" @@ "X" :> "x" @@ "Y" :> "y" @@
    "Z" :> "z"

LowerChar(c) == IF c \in DOMAIN UpperToLower THEN UpperToLower[c] ELSE c

\* str.lower()
Lower(s) == [i \in 1..Len(s) |-> LowerChar(s[i])]

RESPECTIVELY == << "r","e","s","p","e","c","t","i","v","e","l","y" >>
ALL_REVIEW_IN_GUEST ==
    << "a","l","l","_","r","e","v","i","e","w","_","i","n","_","g","u","e","s","t" >>

(***************************************************************************)
(* LogisticRegressionParam.check(): hetero_sshe_lr_param.py lines 147-258. *)
(* A Python value is a record of its type name and its value.  The fields  *)
(* modelled one by one are batch_size, max_iter and review_strategy; the   *)
(* remaining checks, which all raise ValueError, are other_fields_valid.   *)
(***************************************************************************)
MIN_BATCH_SIZE == 10

PyInt(n) == [type |-> "int", val |-> n]
PyFloat(n) == [type |-> "float", val |-> n]

\* the two tests of line 180 joined by "and"
BatchSizeOk_BothTestsNeeded(b) ==
    \/ b.val = -1
    \/ ~(b.type # "int" /\ b.val < MIN_BATCH_SIZE)

\* lines 179-183: no error iff batch_size == -1, or an int >= MIN_BATCH_SIZE
BatchSizeOk(b) ==
    \/ b.val = -1
    \/ ~(b.type # "int" \/ b.val < MIN_BATCH_SIZE)

\* lines 192-197
MaxIterOk(m) == m.type = "int" /\ ~(m.val <= 0)

\* line 255: check_valid_value against the two recognised strategies
ReviewStrategyValid(s) == s \in {RESPECTIVELY, ALL_REVIEW_IN_GUEST}

\* check() without the authorization test
ReviewStrategyRefused_IgnoresFlag(s, allow) == FALSE

\* line 256: the condition under which PermissionError is raised
ReviewStrategyRefused(s, allow) == ~allow /\ s = ALL_REVIEW_IN_GUEST

\* check(): the outcome ("True" or the exception raised) and the param object
\* as check() leaves it (review_strategy is lower-cased at line 254 only when
\* every earlier check passed).
check(prm, allow) ==
    LET lowered == [prm EXCEPT !.review_strategy = Lower(@)] IN
    IF \/ ~BatchSizeOk(prm.batch_size)
       \/ ~MaxIterOk(prm.max_iter)
       \/ ~prm.other_fields_valid
    THEN [result |-> "ValueError", param |-> prm]
    ELSE IF ~ReviewStrategyValid(lowered.review_strategy)
    THEN [result |-> "ValueError", param |-> lowered]
    ELSE IF ReviewStrategyRefused(lowered.review_strategy, allow)
    THEN [result |-> "PermissionError", param |-> lowered]
    ELSE [result |-> "True", param |-> lowered]

\* Configurations submitted to check() in ParamSpec.
StrategyInputs ==
    { RESPECTIVELY,
      ALL_REVIEW_IN_GUEST,
      << "R","e","s","p","e","c","t","i","v","e","l","y" >>,
      << "A","L","L","_","R","E","V","I","E","W","_","I","N","_","G","U","E","S","T" >>,
      << "A","l","l","_","r","e","v","i","e","w","_","I","n","_","G","u","e","s","t" >>,
      << "g","u","e","s","t","_","o","n","l","y" >>,
      << "A","L","L","_","R","E","V","I","E","W","_","I","N","_","H","O","S","T" >> }

BatchSizeInputs ==
    { PyInt(-1), PyFloat(-1), PyInt(0), PyInt(MIN_BATCH_SIZE - 1),
      PyInt(MIN_BATCH_SIZE), PyInt(MIN_BATCH_SIZE + 1), PyFloat(MIN_BATCH_SIZE) }

MaxIterInputs == { PyInt(-1), PyInt(0), PyFloat(1) } \cup { PyInt(n) : n \in 1..MaxIter }

ParamInputs ==
    [ batch_size : BatchSizeInputs,
      max_iter : MaxIterInputs,
      review_strategy : StrategyInputs,
      other_fields_valid : BOOLEAN ]

\* Configurations a training run is started with (those that pass check()).
TrainParamInputs ==
    [ batch_size : { PyInt(-1) },
      max_iter : { m \in MaxIterInputs : m.type = "int" },
      review_strategy : { RESPECTIVELY, ALL_REVIEW_IN_GUEST },
      other_fields_valid : { TRUE } ]

\* A configuration that reaches fit_binary although check() was never applied
\* to it: its review_strategy is used as submitted.
UncheckedParamInputs ==
    [ batch_size : { PyInt(-1) },
      max_iter : { PyInt(1) },
      review_strategy : { << "R","e","s","p","e","c","t","i","v","e","l","y" >>,
                          << "g","u","e","s","t","_","o","n","l","y" >> },
      other_fields_valid : { TRUE } ]

(***************************************************************************)
(* The operations HeteroLRBase leaves to the secure-arithmetic variant,    *)
(* lines 109-116.                                                          *)
(***************************************************************************)
AbstractOps == {"cal_prediction", "compute_gradient", "transfer_pubkey"}

\* a base class whose transfer_pubkey returns instead of raising
AbstractBody_PubkeyReturns(op) ==
    IF op = "transfer_pubkey" THEN "return" ELSE "NotImplementedError"

\* lines 110, 113, 116: what the body of op in HeteroLRBase does
AbstractBody(op) == "NotImplementedError"

\* whether the call self.op(...) ends in the body of HeteroLRBase and raises
Raises(op, overridden) == op \notin overridden /\ AbstractBody(op) = "NotImplementedError"

(***************************************************************************)
(* Field arithmetic on share vectors (the secret-shared tensor engine and  *)
(* the fixed-point codec are external; spec.md sections 3 and 6).          *)
(***************************************************************************)
PrecisionScale == 2

VecOf(d, c) == [i \in 1..d |-> c]

ShapeError == << -1 >>

\* componentwise sum modulo the field
VecAdd(a, b) ==
    IF Len(a) = Len(b)
    THEN [i \in 1..Len(a) |-> (a[i] + b[i]) % FieldQ]
    ELSE ShapeError

VecSub(a, b) ==
    IF Len(a) = Len(b)
    THEN [i \in 1..Len(a) |-> (a[i] - b[i]) % FieldQ]
    ELSE ShapeError

\* fixed-point codec: encode(real) -> field element, decode(field element)
Encode(v) == [i \in 1..Len(v) |-> (v[i] * PrecisionScale) % FieldQ]
Decode(v) == [i \in 1..Len(v) |-> v[i] \div PrecisionScale]

\* fixpoint_encoder.encode(1 / count) (line 164): the reciprocal, scaled and
\* truncated to a field element
EncodeReciprocal(count) == (PrecisionScale \div count) % FieldQ

\* initial plaintext weights the initializer may return for a vector of length d
InitWeights(d) == { [i \in 1..d |-> i % 2] }

\* every 0/1 weight vector of length d
AllWeights(d) == [1..d -> {0, 1}]

\* random masks from_source may draw when it splits a vector of length d
RandomMasks(d) == { VecOf(d, r) : r \in {1, FieldQ - 1} }

\* from_source(name, plaintext): <<share kept, share sent to the peer>>
SplitShares(v, mask) == << VecSub(Encode(v), mask), mask >>

\* reconstruct_unilateral: own share plus the share received, decoded
Reconstruct(own, received) == Decode(VecAdd(own, received))

(***************************************************************************)
(* The transfer channel (external; spec.md section 6): send(value, tag)    *)
(* never blocks, receive(tag) blocks until a message with that tag from    *)
(* the peer is present and consumes the oldest one.                        *)
(***************************************************************************)
\* f"{name}_{n}": the tensor name of a share transfer
TensorTag(name, n) == << name, n >>

\* the tag without the batch index
ZTag_NoBatch(suffix) == << "z", suffix[1], 0 >>

\* (var_name,) + suffix with suffix = (epoch, batch)
ZTag(suffix) == << "z", suffix[1], suffix[2] >>

HasMsg(q, tag) == \E i \in 1..Len(q) : q[i].tag = tag

FirstMsg(q, tag) ==
    CHOOSE i \in 1..Len(q) : q[i].tag = tag /\ \A j \in 1..(i - 1) : q[j].tag # tag

RemoveAt(q, i) == SubSeq(q, 1, i - 1) \o SubSeq(q, i + 1, Len(q))

Send(p, tag, val) ==
    /\ chan' = [chan EXCEPT ![p] = Append(@, [tag |-> tag, val |-> val])]
    /\ sent' = [sent EXCEPT ![p] = Append(@, [tag |-> tag, val |-> val])]

\* the value the blocking receive of `tag` returns to p
Received(p, tag) == chan[Peer(p)][FirstMsg(chan[Peer(p)], tag)].val

Recv(p, tag) ==
    /\ HasMsg(chan[Peer(p)], tag)
    /\ chan' = [chan EXCEPT ![Peer(p)] = RemoveAt(@, FirstMsg(@, tag))]
    /\ rcvd' = [rcvd EXCEPT ![p] = Append(@, tag)]

(***************************************************************************)
(* Initial states.                                                         *)
(***************************************************************************)
\* HeteroLRBase.__init__ (lines 40-54) and the inherited n_iter_ = 0,
\* is_converged = False, model_weights = None
InitObject ==
    /\ n_iter_ = [p \in Roles |-> 0]
    /\ is_converged = [p \in Roles |-> FALSE]
    /\ need_stop = [p \in Roles |-> FALSE]
    /\ batch_idx = [p \in Roles |-> 0]
    /\ w = [p \in Roles |-> None]
    /\ w_self = [p \in Roles |-> None]
    /\ w_remote = [p \in Roles |-> None]
    /\ new_w = [p \in Roles |-> None]
    /\ model_weights = [p \in Roles |-> None]
    /\ hosted_model_weights = [p \in Roles |-> << >>]
    /\ last_models = [p \in Roles |-> None]
    /\ labels = [p \in Roles |-> None]
    /\ rvi = [p \in Roles |-> 0]
    /\ rv_entry = [p \in Roles |-> None]
    /\ reviews = [p \in Roles |-> 0]
    /\ epochs = [p \in Roles |-> 0]
    /\ decisions = [p \in Roles |-> << >>]
    /\ chan = [p \in Roles |-> << >>]
    /\ sent = [p \in Roles |-> << >>]
    /\ rcvd = [p \in Roles |-> << >>]
    /\ y = [p \in Roles |-> None]
    /\ z_res = [p \in Roles |-> None]
    /\ grad_call = [p \in Roles |-> None]
    /\ pred_call = [p \in Roles |-> None]
    /\ heap = [p \in Roles |-> << << >> >>]
    /\ hosted_ref = [p \in Roles |-> 1]
    /\ snapshots = [p \in Roles |-> << >>]
    /\ converge_calls = [p \in Roles |-> << >>]
    /\ encoded_batch_num = [p \in Roles |-> << >>]
    /\ runs = [p \in Roles |-> 0]

\* A training run: both parties hold the same job configuration, which has
\* passed check(); the data fixes the weight dimensions and the batches.
\* Weight dimensions of a training run: none, the largest that passes the
\* shape test of review_models (line 229), and the largest of the model.
DimInputs == {0, 2, MaxDim}

\* Batch sizes of a training run: full batches of two instances, then the
\* remainder of one.
BatchCounts(nb) == [i \in 1..nb |-> IF i < nb THEN 2 ELSE 1]

\* Four kinds of run are started: a variant that overrides the abstract
\* operations, on any checked configuration and any data, with a validation
\* strategy (if any) that keeps no best model; the same variant on a
\* configuration check() was never applied to; a class that lacks some of
\* the abstract operations, on one checked configuration; and the variant
\* with a validation strategy that keeps the best model, under respectively.
Init ==
    /\ ALLOW_REVIEW_GUEST_ONLY \in BOOLEAN
    /\ numBatches \in 1..MaxBatches
    /\ hasValidation \in BOOLEAN
    /\ overrides \in SUBSET AbstractOps
    /\ saves_best \in BOOLEAN
    /\ \/ /\ param_in \in TrainParamInputs
          /\ check(param_in, ALLOW_REVIEW_GUEST_ONLY).result = "True"
          /\ model_param = [p \in Roles |-> check(param_in, ALLOW_REVIEW_GUEST_ONLY).param]
          /\ check_result = [p \in Roles |-> "True"]
          /\ overrides = AbstractOps
          /\ ~saves_best
       \/ /\ param_in \in UncheckedParamInputs
          /\ model_param = [p \in Roles |-> param_in]
          /\ check_result = [p \in Roles |-> "none"]
          /\ overrides = AbstractOps
          /\ ~ALLOW_REVIEW_GUEST_ONLY /\ numBatches = 1 /\ ~hasValidation
          /\ ~saves_best
       \/ /\ param_in \in TrainParamInputs
          /\ param_in.review_strategy = RESPECTIVELY /\ param_in.max_iter = PyInt(1)
          /\ model_param = [p \in Roles |-> check(param_in, ALLOW_REVIEW_GUEST_ONLY).param]
          /\ check_result = [p \in Roles |-> "True"]
          /\ overrides # AbstractOps
          /\ ~ALLOW_REVIEW_GUEST_ONLY /\ numBatches = 1 /\ ~hasValidation
          /\ ~saves_best
       \/ /\ param_in \in TrainParamInputs
          /\ param_in.review_strategy = RESPECTIVELY
          /\ check(param_in, ALLOW_REVIEW_GUEST_ONLY).result = "True"
          /\ model_param = [p \in Roles |-> check(param_in, ALLOW_REVIEW_GUEST_ONLY).param]
          /\ check_result = [p \in Roles |-> "True"]
          /\ overrides = AbstractOps
          /\ ~ALLOW_REVIEW_GUEST_ONLY /\ numBatches = 1 /\ hasValidation
          /\ saves_best
    /\ dim \in [Roles -> DimInputs]
    /\ batch_counts = BatchCounts(numBatches)
    /\ initializer \in { f \in [Roles -> UNION { InitWeights(d) : d \in 0..MaxDim }] :
                             \A p \in Roles : f[p] \in InitWeights(dim[p]) }
    /\ pc = [p \in Roles |-> "fit_binary"]
    /\ InitObject

\* The set-up of a training run (fit_binary up to the return of
\* share_init_model) for every 0/1 weight vector the initializer may return,
\* on a class that overrides the abstract operations.
ShareInit ==
    /\ ALLOW_REVIEW_GUEST_ONLY = FALSE
    /\ param_in \in { prm \in TrainParamInputs :
                         prm.review_strategy = RESPECTIVELY /\ prm.max_iter = PyInt(1) }
    /\ model_param = [p \in Roles |-> check(param_in, ALLOW_REVIEW_GUEST_ONLY).param]
    /\ check_result = [p \in Roles |-> "True"]
    /\ dim \in [Roles -> 0..MaxDim]
    /\ numBatches = 1
    /\ batch_counts = BatchCounts(numBatches)
    /\ hasValidation = FALSE
    /\ saves_best = FALSE
    /\ overrides = AbstractOps
    /\ initializer \in { f \in [Roles -> UNION { AllWeights(d) : d \in 0..MaxDim }] :
                             \A p \in Roles : f[p] \in AllWeights(dim[p]) }
    /\ pc = [p \in Roles |-> "fit_binary"]
    /\ InitObject

\* check() on an arbitrary configuration; no training is started.
ParamInit ==
    /\ ALLOW_REVIEW_GUEST_ONLY \in BOOLEAN
    /\ param_in \in ParamInputs
    /\ model_param = [p \in Roles |-> param_in]
    /\ check_result = [p \in Roles |-> "none"]
    /\ dim = [p \in Roles |-> 0]
    /\ numBatches = 1
    /\ batch_counts = BatchCounts(numBatches)
    /\ hasValidation = FALSE
    /\ saves_best = FALSE
    /\ overrides = AbstractOps
    /\ initializer = [p \in Roles |-> << >>]
    /\ pc = [p \in Roles |-> "config"]
    /\ InitObject

\* LogisticRegressionParam.check() of party p
Check(p) ==
    /\ pc[p] = "config"
    /\ LET r == check(model_param[p], ALLOW_REVIEW_GUEST_ONLY) IN
        /\ check_result' = [check_result EXCEPT ![p] = r.result]
        /\ model_param' = [model_param EXCEPT ![p] = r.param]
        /\ pc' = [pc EXCEPT ![p] = IF r.result = "True" THEN "checked" ELSE "config_error"]
    /\ UNCHANGED << ALLOW_REVIEW_GUEST_ONLY, param_in, envVars, callVars, refVars,
                    convVars, lifeVars >>
    /\ UNCHANGED << dim, numBatches, hasValidation, n_iter_, is_converged,
                    need_stop, batch_idx, w, w_self, w_remote, new_w, model_weights,
                    hosted_model_weights, last_models, labels, rvi, rv_entry,
                    reviews, epochs, decisions, chan, sent, rcvd >>

ParamNext == \E p \in Roles : Check(p)

ParamSpec == ParamInit /\ [][ParamNext]_vars

(***************************************************************************)
(* fit_binary, lines 138-158: set-up and share_init_model.                 *)
(***************************************************************************)
max_iter(p) == model_param[p].max_iter.val

review_strategy(p) == model_param[p].review_strategy

\* what a snapshot [weights, list object] shows to a reader: the weights and
\* the present content of the list object
Deref(p, lm) == << lm[1], heap[p][lm[2]] >>

\* lines 141-148; line 146 puts the list object self.hosted_model_weights is
\* bound to into the first snapshot, not a copy of it
FitBinary(p) ==
    /\ pc[p] = "fit_binary"
    /\ LET w0 == initializer[p] IN
        /\ w' = [w EXCEPT ![p] = Some(w0)]
        /\ last_models' = [last_models EXCEPT ![p] = Some(<< w0, hosted_ref[p] >>)]
        /\ snapshots' = [snapshots EXCEPT ![p] = << << w0, hosted_model_weights[p] >> >>]
    /\ converge_calls' = [converge_calls EXCEPT ![p] = << >>]
    /\ runs' = [runs EXCEPT ![p] = @ + 1]
    /\ labels' = [labels EXCEPT ![p] = IF p = GUEST THEN Some("label") ELSE @]
    /\ pc' = [pc EXCEPT ![p] = "transfer_pubkey"]
    /\ UNCHANGED << paramVars, envVars, callVars, refVars, encoded_batch_num >>
    /\ UNCHANGED << dim, numBatches, hasValidation, n_iter_, is_converged, need_stop,
                    batch_idx, w_self, w_remote, new_w, model_weights,
                    hosted_model_weights, rvi, rv_entry, reviews, epochs,
                    decisions, chan, sent, rcvd >>

\* line 150: transfer_pubkey of the class that runs, or the raising body of
\* HeteroLRBase (lines 115-116)
TransferPubkey(p) ==
    /\ pc[p] = "transfer_pubkey"
    /\ pc' = [pc EXCEPT ![p] = IF Raises("transfer_pubkey", overrides)
                               THEN "NotImplementedError" ELSE "share_init_1"]
    /\ UNCHANGED << paramVars, envVars, callVars, refVars, convVars, lifeVars >>
    /\ UNCHANGED << dim, numBatches, hasValidation, n_iter_, is_converged, need_stop,
                    batch_idx, w, w_self, w_remote, new_w, model_weights,
                    hosted_model_weights, last_models, labels, rvi, rv_entry,
                    reviews, epochs, decisions, chan, sent, rcvd >>

\* share_init_model with GUEST's pair in the order (peer's, own)
ShareInitPlan_GuestPeerFirst(role) ==
    IF role = GUEST
    THEN << [name |-> "wa", source |-> "other_party"], [name |-> "wb", source |-> "w"] >>
    ELSE << [name |-> "wa", source |-> "w"], [name |-> "wb", source |-> "other_party"] >>

\* share_init_model with HOST's pair in the order (peer's, own)
ShareInitPlan_HostPeerFirst(role) ==
    IF role = GUEST
    THEN << [name |-> "wb", source |-> "w"], [name |-> "wa", source |-> "other_party"] >>
    ELSE << [name |-> "wb", source |-> "other_party"], [name |-> "wa", source |-> "w"] >>

\* share_init_model, lines 86-107: the two from_source calls in evaluation
\* order; source[0] is w, source[1] is the other party.  The first result is
\* bound to w_self and the second to w_remote (line 158).
ShareInitPlan(role) ==
    IF role = GUEST
    THEN << [name |-> "wb", source |-> "w"], [name |-> "wa", source |-> "other_party"] >>
    ELSE << [name |-> "wa", source |-> "w"], [name |-> "wb", source |-> "other_party"] >>

\* n_iter default of share_init_model (line 86)
InitShareIter == -1

ShareStep(p) == IF pc[p] = "share_init_1" THEN 1 ELSE 2

\* from_source on a local plaintext: split it and send one share to the peer
FromSourceLocal(p) ==
    /\ pc[p] \in {"share_init_1", "share_init_2"}
    /\ LET k == ShareStep(p)
           st == ShareInitPlan(p)[k] IN
        /\ st.source = "w"
        /\ \E mask \in RandomMasks(dim[p]) :
            LET sh == SplitShares(w[p][1], mask) IN
            /\ Send(p, TensorTag(st.name, InitShareIter), sh[2])
            /\ IF k = 1
               THEN w_self' = [w_self EXCEPT ![p] = Some(sh[1])] /\ UNCHANGED w_remote
               ELSE w_remote' = [w_remote EXCEPT ![p] = Some(sh[1])] /\ UNCHANGED w_self
        /\ pc' = [pc EXCEPT ![p] = IF k = 1 THEN "share_init_2" ELSE "encode_batches"]
    /\ UNCHANGED << paramVars, envVars, callVars, refVars, convVars, lifeVars >>
    /\ UNCHANGED << dim, numBatches, hasValidation, n_iter_, is_converged, need_stop,
                    batch_idx, w, new_w, model_weights, hosted_model_weights,
                    last_models, labels, rvi, rv_entry, reviews, epochs,
                    decisions, rcvd >>

\* from_source on the other party: block until its share arrives
FromSourceRemote(p) ==
    /\ pc[p] \in {"share_init_1", "share_init_2"}
    /\ LET k == ShareStep(p)
           st == ShareInitPlan(p)[k]
           tag == TensorTag(st.name, InitShareIter) IN
        /\ st.source = "other_party"
        /\ Recv(p, tag)
        /\ IF k = 1
           THEN w_self' = [w_self EXCEPT ![p] = Some(Received(p, tag))] /\ UNCHANGED w_remote
           ELSE w_remote' = [w_remote EXCEPT ![p] = Some(Received(p, tag))] /\ UNCHANGED w_self
        /\ pc' = [pc EXCEPT ![p] = IF k = 1 THEN "share_init_2" ELSE "encode_batches"]
    /\ UNCHANGED << paramVars, envVars, callVars, refVars, convVars, lifeVars >>
    /\ UNCHANGED << dim, numBatches, hasValidation, n_iter_, is_converged, need_stop,
                    batch_idx, w, new_w, model_weights, hosted_model_weights,
                    last_models, labels, rvi, rv_entry, reviews, epochs,
                    decisions, sent >>

\* lines 160-168: the batches are encoded once, before the first epoch, and
\* the encoded reciprocal of every batch size is appended to encoded_batch_num
EncodeBatches(p) ==
    /\ pc[p] = "encode_batches"
    /\ encoded_batch_num' =
           [encoded_batch_num EXCEPT ![p] =
                @ \o [i \in 1..numBatches |-> EncodeReciprocal(batch_counts[i])]]
    /\ pc' = [pc EXCEPT ![p] = "while"]
    /\ UNCHANGED << paramVars, envVars, callVars, refVars, convVars, runs >>
    /\ UNCHANGED << dim, numBatches, hasValidation, n_iter_, is_converged, need_stop,
                    batch_idx, w, w_self, w_remote, new_w, model_weights,
                    hosted_model_weights, last_models, labels, rvi, rv_entry,
                    reviews, epochs, decisions, chan, sent, rcvd >>

(***************************************************************************)
(* fit_binary, lines 170-207: the epoch loop.                              *)
(***************************************************************************)
\* the loop test admitting one epoch too many
WhileCond_OffByOne(n, m) == n <= m

\* line 170
WhileCond(n, m) == n < m

WhileTest(p) ==
    /\ pc[p] = "while"
    /\ IF WhileCond(n_iter_[p], max_iter(p))
       THEN /\ pc' = [pc EXCEPT ![p] = "cal_prediction"]
            /\ batch_idx' = [batch_idx EXCEPT ![p] = 0]
            /\ reviews' = [reviews EXCEPT ![p] = 0]
            /\ epochs' = [epochs EXCEPT ![p] = @ + 1]
       ELSE /\ pc' = [pc EXCEPT ![p] = "after_loop"]
            /\ UNCHANGED << batch_idx, reviews, epochs >>
    /\ UNCHANGED << paramVars, envVars, callVars, refVars, convVars, lifeVars >>
    /\ UNCHANGED << dim, numBatches, hasValidation, n_iter_, is_converged, need_stop,
                    w, w_self, w_remote, new_w, model_weights, hosted_model_weights,
                    last_models, labels, rvi, rv_entry, decisions, chan, sent, rcvd >>

\* line 175
current_suffix(p) == << n_iter_[p], batch_idx[p] >>

\* distribute_encrypt (line 247): the ciphertext of z under the sender's key
Encrypt(z) == [cipher |-> z]

\* line 260: PaillierFixedPointTensor(z_table, ...), the ciphertext as received
PaillierFixedPointTensor(z_table) == [tensor |-> "PaillierFixedPointTensor", value |-> z_table]

\* line 263: return res[0], res[0], res[0]
ShareZResult(res) == << res[1], res[1], res[1] >>

\* kwargs["z"] of share_z (line 246): the caller's local intermediate quantity
z(p) == w_self[p][1]

\* share_z, lines 242-263: HOST sends the encryption of its z under the tag
\* ("z",) + suffix and returns nothing; any other role receives it and
\* returns the wrapped ciphertext three times.
share_z(p, suffix) ==
    IF p = HOST
    THEN /\ Send(p, ZTag(suffix), Encrypt(z(p)))
         /\ z_res' = [z_res EXCEPT ![p] = None]
         /\ UNCHANGED rcvd
    ELSE /\ Recv(p, ZTag(suffix))
         /\ z_res' = [z_res EXCEPT ![p] = Some(ShareZResult(
                         << PaillierFixedPointTensor(Received(p, ZTag(suffix))) >>))]
         /\ UNCHANGED sent

\* the prediction share cal_prediction returns for a batch
Prediction(p, suffix) == [pred |-> suffix, of |-> p]

\* line 176: cal_prediction of a concrete variant exchanges the encrypted
\* intermediate through share_z, once per batch, and returns the prediction
\* share; the body of HeteroLRBase raises (lines 109-110)
CalPrediction(p) ==
    /\ pc[p] = "cal_prediction"
    /\ IF Raises("cal_prediction", overrides)
       THEN /\ pc' = [pc EXCEPT ![p] = "NotImplementedError"]
            /\ UNCHANGED << chan, sent, rcvd, y, z_res, pred_call >>
       ELSE /\ share_z(p, current_suffix(p))
            /\ y' = [y EXCEPT ![p] = Some(Prediction(p, current_suffix(p)))]
            /\ pred_call' = [pred_call EXCEPT ![p] =
                                 Some([w_self |-> w_self[p][1], w_remote |-> w_remote[p][1]])]
            /\ pc' = [pc EXCEPT ![p] = "compute_gradient"]
    /\ UNCHANGED << paramVars, envVars, grad_call, refVars, convVars, lifeVars >>
    /\ UNCHANGED << dim, numBatches, hasValidation, n_iter_, is_converged, need_stop,
                    batch_idx, w, w_self, w_remote, new_w, model_weights,
                    hosted_model_weights, last_models, labels, rvi, rv_entry,
                    reviews, epochs, decisions >>

VecShift(v, c) == [i \in 1..Len(v) |-> (v[i] + c) % FieldQ]

\* compute_gradient(wa, wb, ...) -> (new wa, new wb) of a concrete variant:
\* each share moves by the caller's part of the gradient step
compute_gradient(wa, wb) == << VecShift(wa, 1), VecShift(wb, FieldQ - 1) >>

\* what review_models finds on entry (line 213)
ReviewEntry(p) ==
    [ sent |-> Len(sent[p]), rcvd |-> Len(rcvd[p]),
      model_weights |-> model_weights[p],
      hosted_model_weights |-> hosted_model_weights[p] ]

\* error = prediction - label
Sub(pred, lab) == [op |-> "sub", left |-> pred, right |-> lab]

\* both roles subtracting the labels
ErrorArg_AlwaysSubtracts(role, yv, lab) == Sub(yv, lab)

\* lines 178-182 and 187: the error argument of compute_gradient
ErrorArg(role, yv, lab) == IF role = GUEST THEN Sub(yv, lab) ELSE yv

\* the caller's own share passed first on both roles
GradientArgs_OwnShareFirst(role, ws, wr) == [wa |-> ws, wb |-> wr]

\* lines 183 and 187: the share arguments of compute_gradient
GradientArgs(role, ws, wr) ==
    IF role = GUEST THEN [wa |-> wr, wb |-> ws] ELSE [wa |-> ws, wb |-> wr]

\* both roles binding the returned pair as (w_self, w_remote)
GradientBind_OwnFirst(role, r) == [w_self |-> r[1], w_remote |-> r[2]]

\* lines 183 and 187: the targets of the returned pair (new wa, new wb)
GradientBind(role, r) ==
    IF role = GUEST THEN [w_remote |-> r[1], w_self |-> r[2]]
                    ELSE [w_self |-> r[1], w_remote |-> r[2]]

\* lines 178-189: the gradient step replaces both shares, then review_models
\* is entered; the body of HeteroLRBase raises (lines 112-113)
ComputeGradient(p) ==
    /\ pc[p] = "compute_gradient"
    /\ LET args == GradientArgs(p, w_self[p][1], w_remote[p][1])
           error == ErrorArg(p, y[p][1], labels[p])
           bound == GradientBind(p, compute_gradient(args.wa, args.wb)) IN
        IF Raises("compute_gradient", overrides)
           THEN /\ pc' = [pc EXCEPT ![p] = "NotImplementedError"]
                /\ UNCHANGED << w_self, w_remote, rvi, rv_entry, grad_call >>
           ELSE /\ grad_call' = [grad_call EXCEPT ![p] =
                                     Some([wa |-> args.wa, wb |-> args.wb, error |-> error])]
                /\ w_self' = [w_self EXCEPT ![p] = Some(bound.w_self)]
                /\ w_remote' = [w_remote EXCEPT ![p] = Some(bound.w_remote)]
                /\ pc' = [pc EXCEPT ![p] = "review_models"]
                /\ rvi' = [rvi EXCEPT ![p] = 1]
                /\ rv_entry' = [rv_entry EXCEPT ![p] = Some(ReviewEntry(p))]
    /\ UNCHANGED << paramVars, envVars, y, z_res, pred_call, refVars, convVars, lifeVars >>
    /\ UNCHANGED << dim, numBatches, hasValidation, n_iter_, is_converged, need_stop,
                    batch_idx, w, new_w, model_weights, hosted_model_weights,
                    last_models, labels, reviews, epochs, decisions, chan, sent, rcvd >>

(***************************************************************************)
(* review_models, lines 213-240.                                           *)
(***************************************************************************)
\* line 229: the bound on the shape of the share that is checked
ShapeTooLarge(n) == n > 2

\* review_models with the shape check applied to HOST's own share
ReviewProgram_ChecksOwnShare(strategy, role) ==
    IF strategy = RESPECTIVELY
    THEN IF role = GUEST
         THEN << [op |-> "reconstruct_unilateral", share |-> "w_self", name |-> "wb",
                  target |-> "new_w"],
                 [op |-> "broadcast_reconstruct_share", share |-> "w_remote", name |-> "wa"] >>
         ELSE << [op |-> "broadcast_reconstruct_share", share |-> "w_remote", name |-> "wb"],
                 [op |-> "reconstruct_unilateral", share |-> "w_self", name |-> "wa",
                  target |-> "new_w"] >>
    ELSE IF role = GUEST
         THEN << [op |-> "reconstruct_unilateral", share |-> "w_self", name |-> "wb",
                  target |-> "new_w"],
                 [op |-> "reconstruct_unilateral", share |-> "w_remote", name |-> "wa",
                  target |-> "hosted_model_weights"] >>
         ELSE << [op |-> "check_shape", share |-> "w_self"],
                 [op |-> "broadcast_reconstruct_share", share |-> "w_remote", name |-> "wb"],
                 [op |-> "broadcast_reconstruct_share", share |-> "w_self", name |-> "wa"],
                 [op |-> "zeros", share |-> "w_self"] >>

\* review_models with the shape check placed after the first broadcast
ReviewProgram_CheckAfterBroadcast(strategy, role) ==
    IF strategy = RESPECTIVELY
    THEN IF role = GUEST
         THEN << [op |-> "reconstruct_unilateral", share |-> "w_self", name |-> "wb",
                  target |-> "new_w"],
                 [op |-> "broadcast_reconstruct_share", share |-> "w_remote", name |-> "wa"] >>
         ELSE << [op |-> "broadcast_reconstruct_share", share |-> "w_remote", name |-> "wb"],
                 [op |-> "reconstruct_unilateral", share |-> "w_self", name |-> "wa",
                  target |-> "new_w"] >>
    ELSE IF role = GUEST
         THEN << [op |-> "reconstruct_unilateral", share |-> "w_self", name |-> "wb",
                  target |-> "new_w"],
                 [op |-> "reconstruct_unilateral", share |-> "w_remote", name |-> "wa",
                  target |-> "hosted_model_weights"] >>
         ELSE << [op |-> "broadcast_reconstruct_share", share |-> "w_remote", name |-> "wb"],
                 [op |-> "check_shape", share |-> "w_remote"],
                 [op |-> "broadcast_reconstruct_share", share |-> "w_self", name |-> "wa"],
                 [op |-> "zeros", share |-> "w_self"] >>

\* review_models taking the all_review_in_guest branch whatever the strategy
ReviewProgram_AlwaysGuestOnly(strategy, role) ==
    IF role = GUEST
    THEN << [op |-> "reconstruct_unilateral", share |-> "w_self", name |-> "wb",
             target |-> "new_w"],
            [op |-> "reconstruct_unilateral", share |-> "w_remote", name |-> "wa",
             target |-> "hosted_model_weights"] >>
    ELSE << [op |-> "check_shape", share |-> "w_remote"],
            [op |-> "broadcast_reconstruct_share", share |-> "w_remote", name |-> "wb"],
            [op |-> "broadcast_reconstruct_share", share |-> "w_self", name |-> "wa"],
            [op |-> "zeros", share |-> "w_self"] >>

\* review_models whose HOST reconstructs from the share of GUEST's weights
ReviewProgram_HostReconstructsRemote(strategy, role) ==
    IF strategy = RESPECTIVELY
    THEN IF role = GUEST
         THEN << [op |-> "reconstruct_unilateral", share |-> "w_self", name |-> "wb",
                  target |-> "new_w"],
                 [op |-> "broadcast_reconstruct_share", share |-> "w_remote", name |-> "wa"] >>
         ELSE << [op |-> "broadcast_reconstruct_share", share |-> "w_remote", name |-> "wb"],
                 [op |-> "reconstruct_unilateral", share |-> "w_remote", name |-> "wa",
                  target |-> "new_w"] >>
    ELSE IF strategy = ALL_REVIEW_IN_GUEST
    THEN IF role = GUEST
         THEN << [op |-> "reconstruct_unilateral", share |-> "w_self", name |-> "wb",
                  target |-> "new_w"],
                 [op |-> "reconstruct_unilateral", share |-> "w_remote", name |-> "wa",
                  target |-> "hosted_model_weights"] >>
         ELSE << [op |-> "check_shape", share |-> "w_remote"],
                 [op |-> "broadcast_reconstruct_share", share |-> "w_remote", name |-> "wb"],
                 [op |-> "broadcast_reconstruct_share", share |-> "w_self", name |-> "wa"],
                 [op |-> "zeros", share |-> "w_self"] >>
    ELSE << [op |-> "raise"] >>

\* review_models treating any unrecognised strategy as respectively
ReviewProgram_UnknownAsRespectively(strategy, role) ==
    IF strategy = ALL_REVIEW_IN_GUEST
    THEN IF role = GUEST
         THEN << [op |-> "reconstruct_unilateral", share |-> "w_self", name |-> "wb",
                  target |-> "new_w"],
                 [op |-> "reconstruct_unilateral", share |-> "w_remote", name |-> "wa",
                  target |-> "hosted_model_weights"] >>
         ELSE << [op |-> "check_shape", share |-> "w_remote"],
                 [op |-> "broadcast_reconstruct_share", share |-> "w_remote", name |-> "wb"],
                 [op |-> "broadcast_reconstruct_share", share |-> "w_self", name |-> "wa"],
                 [op |-> "zeros", share |-> "w_self"] >>
    ELSE IF role = GUEST
         THEN << [op |-> "reconstruct_unilateral", share |-> "w_self", name |-> "wb",
                  target |-> "new_w"],
                 [op |-> "broadcast_reconstruct_share", share |-> "w_remote", name |-> "wa"] >>
         ELSE << [op |-> "broadcast_reconstruct_share", share |-> "w_remote", name |-> "wb"],
                 [op |-> "reconstruct_unilateral", share |-> "w_self", name |-> "wa",
                  target |-> "new_w"] >>

\* review_models whose GUEST applies the shape test to the same vector
ReviewProgram_GuestChecksToo(strategy, role) ==
    IF strategy = RESPECTIVELY
    THEN IF role = GUEST
         THEN << [op |-> "reconstruct_unilateral", share |-> "w_self", name |-> "wb",
                  target |-> "new_w"],
                 [op |-> "broadcast_reconstruct_share", share |-> "w_remote", name |-> "wa"] >>
         ELSE << [op |-> "broadcast_reconstruct_share", share |-> "w_remote", name |-> "wb"],
                 [op |-> "reconstruct_unilateral", share |-> "w_self", name |-> "wa",
                  target |-> "new_w"] >>
    ELSE IF strategy = ALL_REVIEW_IN_GUEST
    THEN IF role = GUEST
         THEN << [op |-> "check_shape", share |-> "w_self"],
                 [op |-> "reconstruct_unilateral", share |-> "w_self", name |-> "wb",
                  target |-> "new_w"],
                 [op |-> "reconstruct_unilateral", share |-> "w_remote", name |-> "wa",
                  target |-> "hosted_model_weights"] >>
         ELSE << [op |-> "check_shape", share |-> "w_remote"],
                 [op |-> "broadcast_reconstruct_share", share |-> "w_remote", name |-> "wb"],
                 [op |-> "broadcast_reconstruct_share", share |-> "w_self", name |-> "wa"],
                 [op |-> "zeros", share |-> "w_self"] >>
    ELSE << [op |-> "raise"] >>

\* review_models with HOST's zero vector shaped after w_remote
ReviewProgram_ZerosOfRemoteShape(strategy, role) ==
    IF strategy = RESPECTIVELY
    THEN IF role = GUEST
         THEN << [op |-> "reconstruct_unilateral", share |-> "w_self", name |-> "wb",
                  target |-> "new_w"],
                 [op |-> "broadcast_reconstruct_share", share |-> "w_remote", name |-> "wa"] >>
         ELSE << [op |-> "broadcast_reconstruct_share", share |-> "w_remote", name |-> "wb"],
                 [op |-> "reconstruct_unilateral", share |-> "w_self", name |-> "wa",
                  target |-> "new_w"] >>
    ELSE IF role = GUEST
         THEN << [op |-> "reconstruct_unilateral", share |-> "w_self", name |-> "wb",
                  target |-> "new_w"],
                 [op |-> "reconstruct_unilateral", share |-> "w_remote", name |-> "wa",
                  target |-> "hosted_model_weights"] >>
         ELSE << [op |-> "check_shape", share |-> "w_remote"],
                 [op |-> "broadcast_reconstruct_share", share |-> "w_remote", name |-> "wb"],
                 [op |-> "broadcast_reconstruct_share", share |-> "w_self", name |-> "wa"],
                 [op |-> "zeros", share |-> "w_remote"] >>

\* The statements review_models executes, in order, for a strategy and a role.
ReviewProgram(strategy, role) ==
    IF strategy = RESPECTIVELY
    THEN IF role = GUEST
         THEN << [op |-> "reconstruct_unilateral", share |-> "w_self", name |-> "wb",
                  target |-> "new_w"],
                 [op |-> "broadcast_reconstruct_share", share |-> "w_remote", name |-> "wa"] >>
         ELSE << [op |-> "broadcast_reconstruct_share", share |-> "w_remote", name |-> "wb"],
                 [op |-> "reconstruct_unilateral", share |-> "w_self", name |-> "wa",
                  target |-> "new_w"] >>
    ELSE IF strategy = ALL_REVIEW_IN_GUEST
    THEN IF role = GUEST
         THEN << [op |-> "reconstruct_unilateral", share |-> "w_self", name |-> "wb",
                  target |-> "new_w"],
                 [op |-> "reconstruct_unilateral", share |-> "w_remote", name |-> "wa",
                  target |-> "hosted_model_weights"] >>
         ELSE << [op |-> "check_shape", share |-> "w_remote"],
                 [op |-> "broadcast_reconstruct_share", share |-> "w_remote", name |-> "wb"],
                 [op |-> "broadcast_reconstruct_share", share |-> "w_self", name |-> "wa"],
                 [op |-> "zeros", share |-> "w_self"] >>
    ELSE << [op |-> "raise"] >>

Program(p) == ReviewProgram(review_strategy(p), p)

InReview(p, op) ==
    /\ pc[p] = "review_models"
    /\ rvi[p] \in 1..Len(Program(p))
    /\ Program(p)[rvi[p]].op = op

Stmt(p) == Program(p)[rvi[p]]

ShareOf(p, which) == IF which = "w_self" THEN w_self[p][1] ELSE w_remote[p][1]

\* an assignment that overwrites the content of the list object in place
AssignHosted_InPlace(hp, ref, val) == [heap |-> [hp EXCEPT ![ref] = val], ref |-> ref]

\* line 227: self.hosted_model_weights = [...] builds a new list object and
\* binds the attribute to it; the object bound before is left as it is
AssignHosted(hp, ref, val) == [heap |-> Append(hp, val), ref |-> Len(hp) + 1]

\* copy.deepcopy of the list object ref (line 196): a new object, same content
DeepCopy(hp, ref) == [heap |-> Append(hp, hp[ref]), ref |-> Len(hp) + 1]

\* reconstruct_unilateral(tensor_name): blocks for the peer's share
ReviewReconstruct(p) ==
    /\ InReview(p, "reconstruct_unilateral")
    /\ LET tag == TensorTag(Stmt(p).name, n_iter_[p])
           plain == Reconstruct(ShareOf(p, Stmt(p).share), Received(p, tag)) IN
        /\ Recv(p, tag)
        /\ IF Stmt(p).target = "new_w"
           THEN /\ new_w' = [new_w EXCEPT ![p] = Some(plain)]
                /\ UNCHANGED << hosted_model_weights, refVars >>
           ELSE LET a == AssignHosted(heap[p], hosted_ref[p], << plain >>) IN
                /\ hosted_model_weights' = [hosted_model_weights EXCEPT ![p] = << plain >>]
                /\ heap' = [heap EXCEPT ![p] = a.heap]
                /\ hosted_ref' = [hosted_ref EXCEPT ![p] = a.ref]
                /\ UNCHANGED new_w
    /\ rvi' = [rvi EXCEPT ![p] = @ + 1]
    /\ UNCHANGED << paramVars, envVars, callVars, convVars, lifeVars >>
    /\ UNCHANGED << dim, numBatches, hasValidation, pc, n_iter_, is_converged, need_stop,
                    batch_idx, w, w_self, w_remote, model_weights, last_models,
                    labels, rv_entry, reviews, epochs, decisions, sent >>

\* broadcast_reconstruct_share(tensor_name): sends the share, returns nothing
ReviewBroadcast(p) ==
    /\ InReview(p, "broadcast_reconstruct_share")
    /\ Send(p, TensorTag(Stmt(p).name, n_iter_[p]), ShareOf(p, Stmt(p).share))
    /\ rvi' = [rvi EXCEPT ![p] = @ + 1]
    /\ UNCHANGED << paramVars, envVars, callVars, refVars, convVars, lifeVars >>
    /\ UNCHANGED << dim, numBatches, hasValidation, pc, n_iter_, is_converged, need_stop,
                    batch_idx, w, w_self, w_remote, new_w, model_weights,
                    hosted_model_weights, last_models, labels, rv_entry, reviews,
                    epochs, decisions, rcvd >>

\* lines 229-231: ValueError when the checked share has too many entries
ReviewCheckShape(p) ==
    /\ InReview(p, "check_shape")
    /\ IF ShapeTooLarge(Len(ShareOf(p, Stmt(p).share)))
       THEN pc' = [pc EXCEPT ![p] = "ValueError"] /\ UNCHANGED rvi
       ELSE rvi' = [rvi EXCEPT ![p] = @ + 1] /\ UNCHANGED pc
    /\ UNCHANGED << paramVars, envVars, callVars, refVars, convVars, lifeVars >>
    /\ UNCHANGED << dim, numBatches, hasValidation, n_iter_, is_converged, need_stop,
                    batch_idx, w, w_self, w_remote, new_w, model_weights,
                    hosted_model_weights, last_models, labels, rv_entry, reviews,
                    epochs, decisions, chan, sent, rcvd >>

\* lines 236-237: any other strategy raises NotImplementedError
ReviewRaise(p) ==
    /\ InReview(p, "raise")
    /\ pc' = [pc EXCEPT ![p] = "NotImplementedError"]
    /\ UNCHANGED << paramVars, envVars, callVars, refVars, convVars, lifeVars >>
    /\ UNCHANGED << dim, numBatches, hasValidation, n_iter_, is_converged, need_stop,
                    batch_idx, w, w_self, w_remote, new_w, model_weights,
                    hosted_model_weights, last_models, labels, rvi, rv_entry, reviews,
                    epochs, decisions, chan, sent, rcvd >>

\* line 235: new_w = np.zeros(w_self.shape)
ReviewZeros(p) ==
    /\ InReview(p, "zeros")
    /\ new_w' = [new_w EXCEPT ![p] = Some(VecOf(Len(ShareOf(p, Stmt(p).share)), 0))]
    /\ rvi' = [rvi EXCEPT ![p] = @ + 1]
    /\ UNCHANGED << paramVars, envVars, callVars, refVars, convVars, lifeVars >>
    /\ UNCHANGED << dim, numBatches, hasValidation, pc, n_iter_, is_converged, need_stop,
                    batch_idx, w, w_self, w_remote, model_weights,
                    hosted_model_weights, last_models, labels, rv_entry, reviews,
                    epochs, decisions, chan, sent, rcvd >>

\* lines 238-240 and 191-192, then the next batch of the for loop (line 172)
ReviewReturn(p) ==
    /\ pc[p] = "review_models"
    /\ rvi[p] = Len(Program(p)) + 1
    /\ model_weights' = [model_weights EXCEPT ![p] = new_w[p]]
    /\ reviews' = [reviews EXCEPT ![p] = @ + 1]
    /\ batch_idx' = [batch_idx EXCEPT ![p] = @ + 1]
    /\ pc' = [pc EXCEPT ![p] = IF batch_idx[p] + 1 < numBatches
                               THEN "cal_prediction" ELSE "check_converge"]
    /\ rvi' = [rvi EXCEPT ![p] = 0]
    /\ UNCHANGED << paramVars, envVars, callVars, refVars, convVars, lifeVars >>
    /\ UNCHANGED << dim, numBatches, hasValidation, n_iter_, is_converged, need_stop,
                    w, w_self, w_remote, new_w, hosted_model_weights, last_models,
                    labels, rv_entry, epochs, decisions, chan, sent, rcvd >>

\* line 194: check_converge(last_w=last_models, new_w=new_w, suffix=(n_iter_,))
ConvergeArgs(last, nw, n) == [last_w |-> last, new_w |-> nw, suffix |-> << n >>]

\* lines 194-207: check_converge, the snapshot, validation and the loop tail
EpochEnd(p) ==
    /\ pc[p] = "check_converge"
    /\ \E conv \in BOOLEAN, stop \in (IF hasValidation THEN BOOLEAN ELSE {FALSE}) :
        /\ is_converged' = [is_converged EXCEPT ![p] = conv]
        /\ need_stop' = [need_stop EXCEPT ![p] = stop]
        /\ decisions' = [decisions EXCEPT ![p] = Append(@, [conv |-> conv, stop |-> stop])]
        /\ IF stop \/ conv
           THEN pc' = [pc EXCEPT ![p] = "after_loop"] /\ UNCHANGED n_iter_
           ELSE /\ pc' = [pc EXCEPT ![p] = "while"]
                /\ n_iter_' = [n_iter_ EXCEPT ![p] = @ + 1]
    /\ converge_calls' =
           [converge_calls EXCEPT ![p] =
                Append(@, ConvergeArgs(Deref(p, last_models[p][1]), new_w[p][1], n_iter_[p]))]
    /\ LET c == DeepCopy(heap[p], hosted_ref[p]) IN
        /\ heap' = [heap EXCEPT ![p] = c.heap]
        /\ last_models' = [last_models EXCEPT ![p] = Some(<< new_w[p][1], c.ref >>)]
    /\ snapshots' = [snapshots EXCEPT ![p] =
                         Append(@, << new_w[p][1], hosted_model_weights[p] >>)]
    /\ UNCHANGED << paramVars, envVars, callVars, hosted_ref, lifeVars >>
    /\ UNCHANGED << dim, numBatches, hasValidation, batch_idx, w, w_self, w_remote,
                    new_w, model_weights, hosted_model_weights, labels, rvi,
                    rv_entry, reviews, epochs, chan, sent, rcvd >>

\* The model validate() exports in the j-th epoch of this run (_get_meta,
\* lines 265-277, and get_single_model_param, lines 279-295): the strategy of
\* model_param, the counter and the weights as they are in that epoch.
SavedModel(p, j) ==
    [ review_strategy |-> review_strategy(p),
      iters |-> converge_calls[p][j].suffix[1],
      weights |-> snapshots[p][j + 1][1] ]

\* get_single_model_param, lines 279-295: what p's object exports now; on an
\* object without model_weights line 291 raises AttributeError
get_single_model_param(p) ==
    IF model_weights[p] = None
    THEN [ raised |-> "AttributeError" ]
    ELSE [ raised |-> "none",
           iters |-> n_iter_[p],
           is_converged |-> is_converged[p],
           weights |-> model_weights[p] ]

\* load_model (lines 298-320) and load_single_model (lines 322-335) on a
\* binary model m: strategy, weights and counter are taken from m as they are
load_model(p, m) ==
    /\ model_param' = [model_param EXCEPT ![p].review_strategy = m.review_strategy]
    /\ model_weights' = [model_weights EXCEPT ![p] = Some(m.weights)]
    /\ n_iter_' = [n_iter_ EXCEPT ![p] = m.iters]

\* The epochs whose model the validation strategy may hold as the best one
\* when the loop is left: any epoch it has validated, when it keeps the best
\* model; 0 stands for has_saved_best_model() = False.
BestChoices(p) ==
    IF hasValidation /\ saves_best /\ decisions[p] # << >>
    THEN 1..Len(decisions[p])
    ELSE {0}

\* lines 209-211: the best model the validation strategy saved is loaded
AfterLoop(p) ==
    /\ pc[p] = "after_loop"
    /\ \E j \in BestChoices(p) :
           IF j = 0
           THEN UNCHANGED << model_param, model_weights, n_iter_ >>
           ELSE load_model(p, SavedModel(p, j))
    /\ pc' = [pc EXCEPT ![p] = "done"]
    /\ UNCHANGED << ALLOW_REVIEW_GUEST_ONLY, param_in, check_result, envVars, callVars,
                    refVars, convVars, lifeVars >>
    /\ UNCHANGED << dim, numBatches, hasValidation, is_converged, need_stop,
                    batch_idx, w, w_self, w_remote, new_w,
                    hosted_model_weights, last_models, labels, rvi, rv_entry,
                    reviews, epochs, decisions, chan, sent, rcvd >>

(***************************************************************************)
(* load_model called from outside fit_binary (LoadSpec).                   *)
(***************************************************************************)
\* Persisted models handed to load_model: exported by some object of this
\* class, under either recognised strategy.
ModelInputs ==
    [ review_strategy : { RESPECTIVELY, ALL_REVIEW_IN_GUEST },
      iters : { 0, MaxIter },
      weights : { << 1 >> } ]

\* load_model (lines 298-320) on an object that is not training
LoadModel(p) ==
    /\ pc[p] \in {"config", "checked"}
    /\ \E m \in ModelInputs : load_model(p, m)
    /\ UNCHANGED << ALLOW_REVIEW_GUEST_ONLY, param_in, check_result, envVars, callVars,
                    refVars, convVars, lifeVars >>
    /\ UNCHANGED << dim, numBatches, hasValidation, pc, is_converged, need_stop,
                    batch_idx, w, w_self, w_remote, new_w,
                    hosted_model_weights, last_models, labels, rvi, rv_entry,
                    reviews, epochs, decisions, chan, sent, rcvd >>

\* check() and load_model() in any order, on configurations whose fields
\* other than review_strategy are fixed
LoadInit ==
    /\ ParamInit
    /\ param_in.batch_size = PyInt(-1)
    /\ param_in.max_iter = PyInt(1)

LoadNext == \E p \in Roles : Check(p) \/ LoadModel(p)

LoadSpec == LoadInit /\ [][LoadNext]_vars

Step(p) ==
    \/ FitBinary(p)
    \/ TransferPubkey(p)
    \/ FromSourceLocal(p)
    \/ FromSourceRemote(p)
    \/ EncodeBatches(p)
    \/ WhileTest(p)
    \/ CalPrediction(p)
    \/ ComputeGradient(p)
    \/ ReviewReconstruct(p)
    \/ ReviewBroadcast(p)
    \/ ReviewCheckShape(p)
    \/ ReviewRaise(p)
    \/ ReviewZeros(p)
    \/ ReviewReturn(p)
    \/ EpochEnd(p)
    \/ AfterLoop(p)

Next == \E p \in Roles : Step(p)

Spec == Init /\ [][Next]_vars

(***************************************************************************)
(* fit_binary called again on the same object (RerunSpec).                 *)
(***************************************************************************)
\* fit_binary has returned and the caller calls it again with the same data:
\* the locals of the finished call are gone and the validation strategy is
\* built anew (line 141); the attributes of the object, among them n_iter_,
\* is_converged, hosted_model_weights and encoded_batch_num, are what the
\* finished call left (lines 138-168 reset none of them).
FitBinaryAgain(p) ==
    /\ pc[p] = "done"
    /\ runs[p] < MaxRuns
    /\ pc' = [pc EXCEPT ![p] = "fit_binary"]
    /\ need_stop' = [need_stop EXCEPT ![p] = FALSE]
    /\ batch_idx' = [batch_idx EXCEPT ![p] = 0]
    /\ w' = [w EXCEPT ![p] = None]
    /\ w_self' = [w_self EXCEPT ![p] = None]
    /\ w_remote' = [w_remote EXCEPT ![p] = None]
    /\ new_w' = [new_w EXCEPT ![p] = None]
    /\ last_models' = [last_models EXCEPT ![p] = None]
    /\ rvi' = [rvi EXCEPT ![p] = 0]
    /\ rv_entry' = [rv_entry EXCEPT ![p] = None]
    /\ reviews' = [reviews EXCEPT ![p] = 0]
    /\ epochs' = [epochs EXCEPT ![p] = 0]
    /\ decisions' = [decisions EXCEPT ![p] = << >>]
    /\ y' = [y EXCEPT ![p] = None]
    /\ z_res' = [z_res EXCEPT ![p] = None]
    /\ grad_call' = [grad_call EXCEPT ![p] = None]
    /\ pred_call' = [pred_call EXCEPT ![p] = None]
    /\ snapshots' = [snapshots EXCEPT ![p] = << >>]
    /\ converge_calls' = [converge_calls EXCEPT ![p] = << >>]
    /\ UNCHANGED << paramVars, envVars, refVars, lifeVars >>
    /\ UNCHANGED << dim, numBatches, hasValidation, n_iter_, is_converged,
                    model_weights, hosted_model_weights, labels, chan, sent, rcvd >>

\* Training runs under respectively on one vector length, with batches of
\* any sizes, repeated on the same objects.
RerunInit ==
    /\ ALLOW_REVIEW_GUEST_ONLY = FALSE
    /\ param_in \in { prm \in TrainParamInputs : prm.review_strategy = RESPECTIVELY }
    /\ check(param_in, ALLOW_REVIEW_GUEST_ONLY).result = "True"
    /\ model_param = [p \in Roles |-> check(param_in, ALLOW_REVIEW_GUEST_ONLY).param]
    /\ check_result = [p \in Roles |-> "True"]
    /\ dim = [p \in Roles |-> 1]
    /\ numBatches \in 1..MaxBatches
    /\ batch_counts \in [1..numBatches -> 1..2]
    /\ hasValidation = FALSE
    /\ saves_best = FALSE
    /\ overrides = AbstractOps
    /\ initializer \in [Roles -> InitWeights(1)]
    /\ pc = [p \in Roles |-> "fit_binary"]
    /\ InitObject

\* the steps of such runs
RerunNext ==
    \E p \in Roles :
        \/ FitBinary(p)
        \/ TransferPubkey(p)
        \/ FromSourceLocal(p)
        \/ FromSourceRemote(p)
        \/ EncodeBatches(p)
        \/ WhileTest(p)
        \/ CalPrediction(p)
        \/ ComputeGradient(p)
        \/ ReviewReconstruct(p)
        \/ ReviewBroadcast(p)
        \/ ReviewReturn(p)
        \/ EpochEnd(p)
        \/ AfterLoop(p)
        \/ FitBinaryAgain(p)

RerunSpec == RerunInit /\ [][RerunNext]_vars

\* fit_binary up to the return of share_init_model (lines 138-158)
ShareNext ==
    \E p \in Roles :
        \/ FitBinary(p)
        \/ TransferPubkey(p)
        \/ FromSourceLocal(p)
        \/ FromSourceRemote(p)

ShareSpec == ShareInit /\ [][ShareNext]_vars

\* each party is a running process: it takes its next step when it can
FairSpec == Spec /\ \A p \in Roles : WF_vars(Step(p))

(***************************************************************************)
(* Properties.                                                             *)
(***************************************************************************)
GuestOnly == \A p \in Roles : review_strategy(p) = ALL_REVIEW_IN_GUEST

Respective == \A p \in Roles : review_strategy(p) = RESPECTIVELY

\* p has reached check_converge of some epoch
ReachedConverge(p) == pc[p] = "check_converge" \/ decisions[p] # << >>

\* a tag of a share transferred by review_models (share_init_model uses -1)
IsReviewTag(t) == t[1] \in {"wa", "wb"} /\ t[2] >= 0

\* the weights of party p are wb on GUEST and wa on HOST
OwnName(p) == IF p = GUEST THEN "wb" ELSE "wa"

ReviewSent(p) == SelectSeq(sent[p], LAMBDA m : IsReviewTag(m.tag))

ReviewSentNamed(p, name) ==
    SelectSeq(sent[p], LAMBDA m : IsReviewTag(m.tag) /\ m.tag[1] = name)

ReviewRcvd(p) == SelectSeq(rcvd[p], LAMBDA t : IsReviewTag(t))

LoopExited(p) == pc[p] \in {"after_loop", "done"}

\* p has left the loop and not yet executed lines 209-211
AtLoopExit(p) == pc[p] = "after_loop"

C2_FailureBeforeAnyTransfer ==
    \A p \in Roles :
        pc[p] = "ValueError" =>
            /\ Len(sent[p]) = rv_entry[p][1].sent
            /\ Len(rcvd[p]) = rv_entry[p][1].rcvd
            /\ model_weights[p] = rv_entry[p][1].model_weights
            /\ hosted_model_weights[p] = rv_entry[p][1].hosted_model_weights
            /\ ReviewSent(p) = << >>

C2_Witness ==
    /\ pc[HOST] = "ValueError"
    /\ rv_entry[HOST] # None
    /\ Len(sent[HOST]) = 2
    /\ model_weights[HOST] = None

\* C3: under respectively, a party receives in review_models only shares of
\* its own weight vector and sends only its share of the peer's vector, so it
\* never holds both shares of the peer's vector; hosted_model_weights stays
\* empty on both parties.
C3_RespectiveDisclosure ==
    Respective =>
        \A p \in Roles :
            /\ \A i \in 1..Len(rcvd[p]) :
                   IsReviewTag(rcvd[p][i]) => rcvd[p][i][1] = OwnName(p)
            /\ \A i \in 1..Len(sent[p]) :
                   IsReviewTag(sent[p][i].tag) =>
                       /\ sent[p][i].tag[1] = OwnName(Peer(p))
                       /\ Len(sent[p][i].val) = dim[Peer(p)]
            /\ hosted_model_weights[p] = << >>
            /\ model_weights[p] # None => Len(model_weights[p][1]) = dim[p]

C3_Witness ==
    /\ Respective
    /\ \A p \in Roles : reviews[p] >= 1 /\ model_weights[p] # None /\ dim[p] >= 1
    /\ dim[GUEST] # dim[HOST]

\* the review result of p belongs to its current shares: p is not inside
\* review_models and has not yet loaded a saved model (line 210)
Settled(p) == model_weights[p] # None /\ pc[p] \notin {"review_models", "done"}

\* C4: under all_review_in_guest with the shape check passing, after each
\* review GUEST's model_weights is the reconstruction of wb and its
\* hosted_model_weights the reconstruction of wa (own share plus the share
\* HOST broadcast in that review); HOST only broadcasts, wb then wa, receives
\* no share, and its model_weights is the zero vector of its own dimension.
C4_GuestOnlyReview ==
    (GuestOnly /\ dim[GUEST] <= 2) =>
        /\ Settled(GUEST) =>
             LET j == Len(ReviewRcvd(GUEST)) \div 2 IN
             /\ Len(ReviewRcvd(GUEST)) = 2 * j
             /\ j >= 1
             /\ model_weights[GUEST] =
                    Some(Reconstruct(w_self[GUEST][1], ReviewSentNamed(HOST, "wb")[j].val))
             /\ hosted_model_weights[GUEST] =
                    << Reconstruct(w_remote[GUEST][1], ReviewSentNamed(HOST, "wa")[j].val) >>
        /\ ReviewSent(GUEST) = << >>
        /\ ReviewRcvd(HOST) = << >>
        /\ hosted_model_weights[HOST] = << >>
        /\ model_weights[HOST] # None => model_weights[HOST] = Some(VecOf(dim[HOST], 0))
        /\ \A i \in 1..Len(ReviewSent(HOST)) :
               ReviewSent(HOST)[i].tag[1] = (IF i % 2 = 1 THEN "wb" ELSE "wa")
        /\ Settled(HOST) => Len(ReviewSent(HOST)) % 2 = 0 /\ ReviewSent(HOST) # << >>

C4_Witness ==
    /\ GuestOnly
    /\ dim[GUEST] <= 2
    /\ dim[HOST] > 2
    /\ \A p \in Roles : Settled(p) /\ reviews[p] >= 1
    /\ hosted_model_weights[GUEST] # << >>

OtherFieldsValid(prm) ==
    BatchSizeOk(prm.batch_size) /\ MaxIterOk(prm.max_iter) /\ prm.other_fields_valid

\* C5 as stated: check() refuses a review_strategy that is
\* all_review_in_guest up to case with PermissionError whenever
\* ALLOW_REVIEW_GUEST_ONLY is unset, and accepts it when the flag is set and
\* every other field is valid.
C5_PermissionErrorWheneverUnset ==
    \A p \in Roles :
        (check_result[p] # "none" /\ Lower(param_in.review_strategy) = ALL_REVIEW_IN_GUEST) =>
            /\ ~ALLOW_REVIEW_GUEST_ONLY => check_result[p] = "PermissionError"
            /\ (ALLOW_REVIEW_GUEST_ONLY /\ OtherFieldsValid(param_in)) =>
                   check_result[p] = "True"

\* C5, amended: check() never accepts a review_strategy that is
\* all_review_in_guest up to case while ALLOW_REVIEW_GUEST_ONLY is unset: it
\* raises PermissionError for it when every other field is valid, and the
\* ValueError of an invalid field, which is tested first, otherwise; with the
\* flag set and every other field valid it returns True and leaves the
\* lower-cased strategy.
C5_GuestOnlyNeedsAuthorization ==
    \A p \in Roles :
        (check_result[p] # "none" /\ Lower(param_in.review_strategy) = ALL_REVIEW_IN_GUEST) =>
            /\ ~ALLOW_REVIEW_GUEST_ONLY => check_result[p] # "True"
            /\ (~ALLOW_REVIEW_GUEST_ONLY /\ OtherFieldsValid(param_in)) =>
                   check_result[p] = "PermissionError"
            /\ ~OtherFieldsValid(param_in) => check_result[p] = "ValueError"
            /\ (ALLOW_REVIEW_GUEST_ONLY /\ OtherFieldsValid(param_in)) =>
                   /\ check_result[p] = "True"
                   /\ model_param[p].review_strategy = ALL_REVIEW_IN_GUEST

C5_Witness ==
    /\ ~ALLOW_REVIEW_GUEST_ONLY
    /\ param_in.review_strategy # ALL_REVIEW_IN_GUEST
    /\ Lower(param_in.review_strategy) = ALL_REVIEW_IN_GUEST
    /\ check_result[GUEST] = "PermissionError"

NoError == \A p \in Roles : pc[p] \notin {"ValueError", "NotImplementedError"}

MinLen(a, b) == IF Len(a) <= Len(b) THEN Len(a) ELSE Len(b)

\* both parties took the same convergence and stop decisions in every epoch
\* both have decided
DecisionsAgree ==
    \A i \in 1..MinLen(decisions[GUEST], decisions[HOST]) :
        decisions[GUEST][i] = decisions[HOST][i]

\* number of messages p has sent under tag t
SentUnder(p, t) == Cardinality({ j \in 1..Len(sent[p]) : sent[p][j].tag = t })

\* p is at a blocking receive; WaitTag(p) is the tag it waits for
Waiting(p) ==
    \/ pc[p] \in {"share_init_1", "share_init_2"}
         /\ ShareInitPlan(p)[ShareStep(p)].source = "other_party"
    \/ pc[p] = "cal_prediction" /\ p # HOST
    \/ InReview(p, "reconstruct_unilateral")

WaitTag(p) ==
    IF pc[p] \in {"share_init_1", "share_init_2"}
    THEN TensorTag(ShareInitPlan(p)[ShareStep(p)].name, InitShareIter)
    ELSE IF pc[p] = "cal_prediction"
    THEN ZTag(current_suffix(p))
    ELSE TensorTag(Stmt(p).name, n_iter_[p])

\* p waits for a message its peer, having left the loop, will never send
Orphaned(p) ==
    /\ Waiting(p)
    /\ LoopExited(Peer(p))
    /\ ~HasMsg(chan[Peer(p)], WaitTag(p))

\* C6: in a run without error in which both parties take the same decisions,
\* every receive is matched by exactly one send of the peer under its tag, no
\* message is left unconsumed when both parties are done, and no party waits
\* for a message that will never be sent.
C6_LockstepMatching ==
    (NoError /\ DecisionsAgree) =>
        /\ \A p \in Roles : \A i \in 1..Len(rcvd[p]) :
               SentUnder(Peer(p), rcvd[p][i]) = 1
        /\ (\A p \in Roles : pc[p] = "done") => \A p \in Roles : chan[p] = << >>
        /\ \A p \in Roles : ~Orphaned(p)

\* C7: within one run no party sends two messages under the same tag.
C7_TagsPairwiseDistinct ==
    \A p \in Roles : \A i, j \in 1..Len(sent[p]) :
        i # j => sent[p][i].tag # sent[p][j].tag

\* C8: review_models runs exactly once per epoch, after the update of the last
\* batch and before check_converge.
C8_OneReviewPerEpoch ==
    \A p \in Roles :
        /\ pc[p] = "check_converge" => reviews[p] = 1
        /\ pc[p] = "review_models" => batch_idx[p] = numBatches - 1

AllContinue(p) ==
    \A i \in 1..Len(decisions[p]) : ~decisions[p][i].conv /\ ~decisions[p][i].stop

InLoopBody(p) ==
    pc[p] \in {"cal_prediction", "compute_gradient", "review_models", "check_converge"}

\* C9: the loop runs at most max_iter epochs; it is left only when
\* check_converge returned true, need_stop() was true or n_iter_ reached
\* max_iter, and it goes on only when none of these holds; when every epoch
\* answers "not converged, no stop", exactly max_iter epochs run and
\* is_converged is false at the end.
C9_LoopTermination ==
    \A p \in Roles :
        /\ epochs[p] <= max_iter(p)
        /\ n_iter_[p] <= max_iter(p)
        /\ Len(decisions[p]) <= epochs[p]
        /\ AtLoopExit(p) =>
               \/ is_converged[p]
               \/ need_stop[p]
               \/ n_iter_[p] = max_iter(p)
        /\ (InLoopBody(p) \/ pc[p] = "while") =>
               /\ AllContinue(p)
               /\ ~is_converged[p] /\ ~need_stop[p]
               /\ n_iter_[p] = Len(decisions[p])
        /\ InLoopBody(p) => n_iter_[p] < max_iter(p) /\ epochs[p] = n_iter_[p] + 1
        /\ (LoopExited(p) /\ AllContinue(p)) =>
               /\ epochs[p] = max_iter(p)
               /\ Len(decisions[p]) = max_iter(p)
               /\ AtLoopExit(p) => n_iter_[p] = max_iter(p)
               /\ ~is_converged[p]

C9_Witness ==
    \E p \in Roles :
        /\ pc[p] = "done"
        /\ AllContinue(p)
        /\ max_iter(p) >= 2
        /\ epochs[p] = max_iter(p)

\* q stopped early in an epoch in which p, with the same convergence answer,
\* did not
StoppedAlone(q, p) ==
    LET k == Len(decisions[q]) IN
    /\ LoopExited(q)
    /\ k >= 1
    /\ decisions[q][k].stop /\ ~decisions[q][k].conv
    /\ Len(decisions[p]) >= k
    /\ ~decisions[p][k].stop /\ ~decisions[p][k].conv
    /\ \A i \in 1..(k - 1) : decisions[p][i] = decisions[q][i]

\* C10: when one party stops early and its peer does not, the peer is never
\* left at a blocking receive for a message that will not be sent.
C10_EarlyStopReachesPeer ==
    \A p \in Roles : StoppedAlone(Peer(p), p) => ~Orphaned(p)

(***************************************************************************)
(* The abstract operations.                                                *)
(***************************************************************************)
\* everything but pc
dataVars == << paramVars, envVars, callVars, refVars, convVars, lifeVars, dim,
               numBatches, hasValidation, n_iter_,
               is_converged, need_stop, batch_idx, w, w_self, w_remote, new_w,
               model_weights, hosted_model_weights, last_models, labels, rvi,
               rv_entry, reviews, epochs, decisions, chan, sent, rcvd >>

\* a step in which p calls op
Calls(p, op) == pc[p] = op /\ pc'[p] # op

\* C13: a call of cal_prediction, compute_gradient or transfer_pubkey on a
\* class that does not override it raises NotImplementedError and changes
\* nothing else; on a class that overrides none of them both parties fail in
\* transfer_pubkey, so share_init_model never runs and nothing is ever sent
\* or received.
C13_UnimplementedFailFast ==
    /\ [][\A p \in Roles : \A op \in AbstractOps \ overrides :
              Calls(p, op) =>
                  /\ pc' = [pc EXCEPT ![p] = "NotImplementedError"]
                  /\ UNCHANGED dataVars]_vars
    /\ [](overrides = {} =>
              \A p \in Roles :
                  /\ pc[p] \in {"fit_binary", "transfer_pubkey", "NotImplementedError"}
                  /\ w_self[p] = None /\ w_remote[p] = None
                  /\ sent[p] = << >> /\ rcvd[p] = << >> /\ chan[p] = << >>)

C13_Witness ==
    /\ overrides = {}
    /\ \A p \in Roles : pc[p] = "NotImplementedError" /\ w[p] # None

(***************************************************************************)
(* share_z.                                                                *)
(***************************************************************************)
\* a step in which p calls share_z and share_z returns
CallsShareZ(p) == pc[p] = "cal_prediction" /\ pc'[p] = "compute_gradient"

\* the messages HOST has sent under tag t
HostSentUnder(t) == SelectSeq(sent[HOST], LAMBDA m : m.tag = t)

\* C14: in one call of share_z with suffix (epoch, batch), HOST sends exactly
\* one message, the encryption of its z under the tag ("z", epoch, batch),
\* receives nothing and returns nothing; GUEST sends nothing, receives the one
\* message HOST sent under that tag and returns three times the same tensor,
\* which wraps the ciphertext as HOST sent it.
C14_ShareZExchange ==
    [][/\ CallsShareZ(HOST) =>
              /\ sent'[HOST] = Append(sent[HOST],
                                      [tag |-> << "z", n_iter_[HOST], batch_idx[HOST] >>,
                                       val |-> Encrypt(z(HOST))])
              /\ rcvd'[HOST] = rcvd[HOST]
              /\ z_res'[HOST] = None
       /\ CallsShareZ(GUEST) =>
              LET tag == << "z", n_iter_[GUEST], batch_idx[GUEST] >>
                  msgs == HostSentUnder(tag) IN
              /\ sent'[GUEST] = sent[GUEST]
              /\ rcvd'[GUEST] = Append(rcvd[GUEST], tag)
              /\ Len(chan'[HOST]) = Len(chan[HOST]) - 1
              /\ Len(msgs) = 1
              /\ z_res'[GUEST] = Some(<< PaillierFixedPointTensor(msgs[1].val),
                                         PaillierFixedPointTensor(msgs[1].val),
                                         PaillierFixedPointTensor(msgs[1].val) >>)
              /\ msgs[1].val \in { Encrypt(v) : v \in [1..dim[HOST] -> 0..(FieldQ - 1)] }]_vars

C14_Witness ==
    /\ pc[GUEST] = "compute_gradient"
    /\ n_iter_[GUEST] = 1 /\ batch_idx[GUEST] = 1
    /\ rcvd[GUEST][Len(rcvd[GUEST])] = << "z", 1, 1 >>
    /\ z_res[GUEST] # None
    /\ z_res[HOST] = None
    /\ dim[HOST] >= 1

(***************************************************************************)
(* review_models under respectively.                                       *)
(***************************************************************************)
\* what the gradient steps of k batches add to each entry of p's vector: each
\* party moves its share of wa by 1 and its share of wb by -1
GradientTotal(p, k) == (2 * k * (IF p = HOST THEN 1 ELSE FieldQ - 1)) % FieldQ

\* C15: under respectively, whatever the interleaving, after its k-th review
\* a party's model_weights is the decoded sum modulo the field of the two
\* shares of its own vector (its w_self and the share the peer broadcast in
\* that review), a value fixed by the initial weights and k alone; when both
\* parties have completed the same review, the two results are the
\* reconstruction of the whole model from the shares the parties hold.
C15_RespectiveReconstruction ==
    Respective =>
        /\ \A p \in Roles :
               Settled(p) =>
                   LET k == Len(ReviewRcvd(p)) IN
                   /\ k >= 1
                   /\ Len(ReviewSentNamed(Peer(p), OwnName(p))) >= k
                   /\ model_weights[p] =
                          Some(Decode(VecAdd(w_self[p][1],
                                             ReviewSentNamed(Peer(p), OwnName(p))[k].val)))
                   /\ model_weights[p] =
                          Some(Decode(VecShift(Encode(w[p][1]), GradientTotal(p, k))))
        /\ ((\A p \in Roles : Settled(p))
              /\ Len(ReviewRcvd(GUEST)) = Len(ReviewRcvd(HOST))) =>
               \A p \in Roles :
                   model_weights[p] =
                       Some(Decode(VecAdd(w_self[p][1], w_remote[Peer(p)][1])))

C15_Witness ==
    /\ Respective
    /\ \A p \in Roles : Settled(p) /\ Len(ReviewRcvd(p)) = 2
    /\ dim[GUEST] = 2 /\ dim[HOST] = 3
    /\ model_weights[GUEST] # model_weights[HOST]

(***************************************************************************)
(* check() (ParamSpec).                                                    *)
(***************************************************************************)
\* batch_size is -1 or an integer of at least MIN_BATCH_SIZE
BatchSizeLegal(b) == b.val = -1 \/ (b.type = "int" /\ b.val >= MIN_BATCH_SIZE)

NothingExchanged == \A q \in Roles : chan[q] = << >> /\ sent[q] = << >> /\ rcvd[q] = << >>

\* C16: check() raises ValueError for every batch_size that is neither -1 nor
\* an integer of at least MIN_BATCH_SIZE, whatever the other fields; check()
\* sends and receives nothing.
C16_BatchSizeRejected ==
    /\ NothingExchanged
    /\ \A p \in Roles :
           (check_result[p] # "none" /\ ~BatchSizeLegal(param_in.batch_size)) =>
               /\ check_result[p] = "ValueError"
               /\ pc[p] = "config_error"

C16_Witness ==
    /\ param_in.batch_size = PyInt(0)
    /\ MaxIterOk(param_in.max_iter)
    /\ param_in.other_fields_valid
    /\ param_in.review_strategy = RESPECTIVELY
    /\ check_result[GUEST] = "ValueError"
    /\ NothingExchanged

(***************************************************************************)
(* Unrecognised review strategies.                                         *)
(***************************************************************************)
KnownStrategy(s) == s \in {RESPECTIVELY, ALL_REVIEW_IN_GUEST}

\* a configuration valid in every field but, possibly, review_strategy
WithStrategy(s) ==
    [ batch_size |-> PyInt(-1), max_iter |-> PyInt(1), review_strategy |-> s,
      other_fields_valid |-> TRUE ]

\* p raised in review_models (rvi keeps the statement that raised)
RaisedInReview(p) == pc[p] = "NotImplementedError" /\ rvi[p] >= 1

\* C17: check() rejects with ValueError every review_strategy that is not one
\* of the two recognised values after lower-casing, and leaves a recognised
\* one when it returns True; a party whose review_strategy is not recognised
\* never sends or receives a share in review_models and never gets
\* model_weights: its first review_models raises NotImplementedError at its
\* first statement, with nothing sent or received since entry.
C17_UnknownStrategyNeverReviews ==
    /\ (\A p \in Roles : pc[p] = "fit_binary") =>
           \A s \in StrategyInputs : \A allow \in BOOLEAN :
               LET r == check(WithStrategy(s), allow) IN
               /\ ~KnownStrategy(Lower(s)) => r.result = "ValueError"
               /\ r.result = "True" => KnownStrategy(r.param.review_strategy)
    /\ \A p \in Roles :
           /\ check_result[p] = "True" => KnownStrategy(review_strategy(p))
           /\ ~KnownStrategy(review_strategy(p)) =>
                  /\ ReviewSent(p) = << >>
                  /\ ReviewRcvd(p) = << >>
                  /\ model_weights[p] = None
                  /\ new_w[p] = None
                  /\ reviews[p] = 0
                  /\ pc[p] = "review_models" => rvi[p] = 1
                  /\ ~ReachedConverge(p)
           /\ RaisedInReview(p) =>
                  /\ ~KnownStrategy(review_strategy(p))
                  /\ rvi[p] = 1
                  /\ Len(sent[p]) = rv_entry[p][1].sent
                  /\ Len(rcvd[p]) = rv_entry[p][1].rcvd
                  /\ model_weights[p] = rv_entry[p][1].model_weights

C17_Witness ==
    /\ \A p \in Roles : RaisedInReview(p)
    /\ review_strategy(GUEST) = << "R","e","s","p","e","c","t","i","v","e","l","y" >>
    /\ Lower(review_strategy(GUEST)) = RESPECTIVELY
    /\ dim[GUEST] >= 1 /\ dim[HOST] >= 1

(***************************************************************************)
(* A party failing in the middle of a run (FairSpec).                      *)
(***************************************************************************)
\* HOST has raised the dimension error of review_models; GUEST is at the
\* first statement of the same review, the receive of wb_0, and no such
\* message is in flight
GuestBlockedInReview ==
    /\ pc[HOST] = "ValueError"
    /\ ReviewSent(HOST) = << >>
    /\ pc[GUEST] = "review_models"
    /\ rvi[GUEST] = 1
    /\ Stmt(GUEST).op = "reconstruct_unilateral"
    /\ ~HasMsg(chan[HOST], TensorTag("wb", 0))
    /\ reviews[GUEST] = 0
    /\ n_iter_[GUEST] = 0

\* C18: under all_review_in_guest with more than 2 entries in GUEST's weight
\* vector, on a class that supplies the abstract operations, HOST ends in the
\* ValueError of its first review_models and stays there, having broadcast
\* nothing; GUEST, which makes no such test, reaches the first receive of its
\* first review_models and stays blocked in it for ever: it never reaches
\* check_converge.
C18_PeerBlockedForever ==
    (GuestOnly /\ dim[GUEST] > 2 /\ overrides = AbstractOps) =>
        /\ <>[]GuestBlockedInReview
        /\ [](~ReachedConverge(GUEST) /\ pc[GUEST] # "ValueError")

C18_Witness ==
    /\ GuestOnly
    /\ dim[GUEST] > 2
    /\ GuestBlockedInReview
    /\ sent[HOST] # << >>

(***************************************************************************)
(* The batch step: compute_gradient and its arguments.                     *)
(***************************************************************************)
\* a step in which p calls compute_gradient and the call returns
CallsGradient(p) == pc[p] = "compute_gradient" /\ pc'[p] = "review_models"

\* C19 as stated: on both roles compute_gradient is called with the caller's
\* own share (w_self) as wa and the counterpart's share (w_remote) as wb.
C19_OwnShareAsWa ==
    [][\A p \in Roles :
           CallsGradient(p) =>
               /\ grad_call'[p][1].wa = w_self[p][1]
               /\ grad_call'[p][1].wb = w_remote[p][1]]_vars

\* C19, amended: on both roles compute_gradient is called with the share of
\* HOST's weight vector as wa and the share of GUEST's weight vector as wb:
\* HOST passes its own share first, GUEST the counterpart's share first; the
\* returned pair is bound back to the same two variables in the same order.
C19_HostShareAsWa ==
    [][\A p \in Roles :
           CallsGradient(p) =>
               LET own == w_self[p][1]
                   other == w_remote[p][1]
                   call == grad_call'[p][1]
                   r == compute_gradient(call.wa, call.wb) IN
               /\ call.wa = (IF p = HOST THEN own ELSE other)
               /\ call.wb = (IF p = HOST THEN other ELSE own)
               /\ Len(call.wa) = dim[HOST]
               /\ Len(call.wb) = dim[GUEST]
               /\ w_self'[p] = Some(IF p = HOST THEN r[1] ELSE r[2])
               /\ w_remote'[p] = Some(IF p = HOST THEN r[2] ELSE r[1])]_vars

C19_Witness ==
    /\ pc[GUEST] = "review_models"
    /\ grad_call[GUEST] # None
    /\ dim[GUEST] = 2 /\ dim[HOST] = MaxDim
    /\ Len(grad_call[GUEST][1].wa) = dim[HOST]
    /\ Len(grad_call[GUEST][1].wb) = dim[GUEST]
    /\ n_iter_[GUEST] = 1

\* the prediction shares cal_prediction can return to p
Predictions(p) == { Prediction(p, << e, b >>) : e \in 0..MaxIter, b \in 0..MaxBatches }

\* C20: in every state of a training run labels is unset on HOST and, once
\* fit_binary has passed line 148, set on GUEST; in every compute_gradient
\* call the error argument is prediction - labels on GUEST and the
\* prediction returned by cal_prediction, unchanged, on HOST.
C20_LabelsOnlyOnGuest ==
    /\ labels[HOST] = None
    /\ pc[GUEST] # "fit_binary" => labels[GUEST] # None
    /\ grad_call[HOST] # None =>
           /\ grad_call[HOST][1].error \in Predictions(HOST)
           /\ pc[HOST] = "review_models" => grad_call[HOST][1].error = y[HOST][1]
    /\ grad_call[GUEST] # None =>
           /\ grad_call[GUEST][1].error \in
                  { Sub(yv, labels[GUEST]) : yv \in Predictions(GUEST) }
           /\ pc[GUEST] = "review_models" =>
                  grad_call[GUEST][1].error = Sub(y[GUEST][1], labels[GUEST])

C20_Witness ==
    /\ grad_call[HOST] # None
    /\ grad_call[GUEST] # None
    /\ labels[GUEST] # None
    /\ y[HOST] = Some(Prediction(HOST, << 1, 1 >>))
    /\ pc[HOST] = "review_models"

(***************************************************************************)
(* check_converge and the snapshots.                                       *)
(***************************************************************************)
\* the weights p's review of the last batch of epoch k returns: the decoded
\* own vector after k epochs of gradient steps, or zeros on HOST under
\* all_review_in_guest
ReviewedInEpoch(p, k) ==
    IF p = HOST /\ GuestOnly
    THEN VecOf(dim[p], 0)
    ELSE Decode(VecShift(Encode(w[p][1]), GradientTotal(p, k * numBatches)))

\* what hosted_model_weights holds when epoch k ends
HostedInEpoch(p, k) ==
    IF p = GUEST /\ GuestOnly
    THEN << Decode(VecShift(Encode(w[HOST][1]), GradientTotal(HOST, k * numBatches))) >>
    ELSE << >>

\* C21: in every epoch k check_converge is given as last_w the snapshot taken
\* at the end of epoch k-1 (for the first epoch the initializer's weights and
\* the initial, empty hosted weights) and as new_w the weights reviewed after
\* the last batch of epoch k; a snapshot shows what it held when it was taken
\* for as long as it is kept, whatever the batches and reviews after it do.
C21_ConvergeSnapshots ==
    \A p \in Roles :
        /\ pc[p] = "check_converge" =>
               /\ reviews[p] = numBatches
               /\ new_w[p] = model_weights[p]
               /\ new_w[p] = Some(ReviewedInEpoch(p, epochs[p]))
        /\ snapshots[p] # << >> =>
               /\ Len(snapshots[p]) = Len(converge_calls[p]) + 1
               /\ Len(converge_calls[p]) = Len(decisions[p])
               /\ snapshots[p][1] = << initializer[p], << >> >>
               /\ \A k \in 1..Len(converge_calls[p]) :
                      /\ converge_calls[p][k].last_w = snapshots[p][k]
                      /\ converge_calls[p][k].new_w = ReviewedInEpoch(p, k)
                      /\ converge_calls[p][k].suffix = << k - 1 >>
                      /\ snapshots[p][k + 1] = << ReviewedInEpoch(p, k), HostedInEpoch(p, k) >>
               /\ Deref(p, last_models[p][1]) = snapshots[p][Len(snapshots[p])]

C21_Witness ==
    /\ GuestOnly
    /\ dim[HOST] >= 1 /\ dim[GUEST] >= 1
    /\ pc[GUEST] = "review_models" /\ epochs[GUEST] = 2
    /\ Len(converge_calls[GUEST]) = 1
    /\ hosted_model_weights[GUEST] # snapshots[GUEST][2][2]
    /\ snapshots[GUEST][2] # snapshots[GUEST][1]
    /\ Len(converge_calls[HOST]) = 1

(***************************************************************************)
(* The shares from batch to batch.                                         *)
(***************************************************************************)
\* cal_prediction calls p has returned from: one z message each
PredictionCalls(p) ==
    IF p = HOST THEN Len(SelectSeq(sent[p], LAMBDA m : m.tag[1] = "z"))
                ELSE Len(SelectSeq(rcvd[p], LAMBDA t : t[1] = "z"))

\* gradient steps p has completed
Updates(p) == PredictionCalls(p) - (IF pc[p] = "compute_gradient" THEN 1 ELSE 0)

\* what k gradient steps of one party add to each entry of its share of the
\* vector of party q
ShareTotal(q, k) == (k * (IF q = HOST THEN 1 ELSE FieldQ - 1)) % FieldQ

\* the shares share_init_model returned to p
InitialOwnShare(p) == VecSub(Encode(w[p][1]), sent[p][1].val)

InitialPeerShare(p) == sent[Peer(p)][1].val

\* C22: after share_init_model and after every batch update, w_self of each
\* party is a share of its own weight vector and w_remote a share of the
\* peer's (wa being HOST's vector and wb GUEST's on both parties): each is the
\* share share_init_model returned moved by the gradient steps made so far,
\* and when both parties have made the same number of steps the two shares of
\* a vector add up to its encoding moved by the whole gradient; the shares
\* given to cal_prediction for a batch are the pair compute_gradient returned
\* for the batch before (for the first batch, the pair of share_init_model),
\* and compute_gradient for that batch is called on the same pair.
C22_SharesFollowGradient ==
    overrides = AbstractOps =>
        /\ \A p \in Roles :
               (w_self[p] # None /\ w_remote[p] # None) =>
                   /\ Len(w_self[p][1]) = dim[p]
                   /\ Len(w_remote[p][1]) = dim[Peer(p)]
                   /\ w_self[p][1] = VecShift(InitialOwnShare(p), ShareTotal(p, Updates(p)))
                   /\ w_remote[p][1] =
                          VecShift(InitialPeerShare(p), ShareTotal(Peer(p), Updates(p)))
        /\ ((\A p \in Roles : w_self[p] # None /\ w_remote[p] # None)
              /\ Updates(GUEST) = Updates(HOST)) =>
               \A p \in Roles :
                   VecAdd(w_self[p][1], w_remote[Peer(p)][1]) =
                       VecShift(Encode(w[p][1]), GradientTotal(p, Updates(p)))
        /\ \A p \in Roles :
               pred_call[p] # None =>
                   LET given == pred_call[p][1] IN
                   IF pc[p] = "compute_gradient"
                   THEN IF grad_call[p] = None
                        THEN /\ given.w_self = InitialOwnShare(p)
                             /\ given.w_remote = InitialPeerShare(p)
                        ELSE LET r == compute_gradient(grad_call[p][1].wa, grad_call[p][1].wb) IN
                             /\ given.w_self = (IF p = HOST THEN r[1] ELSE r[2])
                             /\ given.w_remote = (IF p = HOST THEN r[2] ELSE r[1])
                   ELSE /\ grad_call[p] # None
                        /\ grad_call[p][1].wa = (IF p = HOST THEN given.w_self ELSE given.w_remote)
                        /\ grad_call[p][1].wb = (IF p = HOST THEN given.w_remote ELSE given.w_self)

C22_Witness ==
    /\ overrides = AbstractOps
    /\ dim[GUEST] = 2 /\ dim[HOST] = MaxDim
    /\ \A p \in Roles : pc[p] = "compute_gradient" /\ Updates(p) = 3
    /\ pred_call[GUEST][1].w_self # InitialOwnShare(GUEST)
    /\ pred_call[GUEST][1].w_self # grad_call[GUEST][1].wb

(***************************************************************************)
(* check() and load_model() (LoadSpec).                                    *)
(***************************************************************************)
\* C23: with ALLOW_REVIEW_GUEST_ONLY unset, whatever check() and load_model()
\* calls were made, the strategy in force on an object whose configuration
\* passed check() is never all_review_in_guest, so review_models would never
\* run the statements of the all_review_in_guest branch.
C23_GuestOnlyNeverInForce ==
    ~ALLOW_REVIEW_GUEST_ONLY =>
        \A p \in Roles :
            pc[p] = "checked" =>
                /\ review_strategy(p) # ALL_REVIEW_IN_GUEST
                /\ Program(p) # ReviewProgram(ALL_REVIEW_IN_GUEST, p)

(***************************************************************************)
(* The epoch counter.                                                      *)
(***************************************************************************)
\* the last epoch of p's loop ended with convergence or an early stop
LeftByBreak(p) ==
    /\ decisions[p] # << >>
    /\ LET d == decisions[p][Len(decisions[p])] IN d.conv \/ d.stop

\* C24: in no step of fit_binary does n_iter_ decrease; it changes only at the
\* end of an epoch that neither converged nor was stopped, by exactly 1, and
\* never exceeds max_iter; when fit_binary is over the counter, which is what
\* the object exports as 'iters', is the 0-based index of the epoch in which
\* the loop was left by convergence or early stop, and max_iter when the loop
\* was left by exhaustion.
C24_EpochCounter ==
    [][\A p \in Roles :
           /\ n_iter_'[p] >= n_iter_[p]
           /\ n_iter_'[p] <= max_iter(p)
           /\ n_iter_'[p] # n_iter_[p] =>
                  /\ n_iter_'[p] = n_iter_[p] + 1
                  /\ pc[p] = "check_converge" /\ pc'[p] = "while"
           /\ (pc[p] = "check_converge" /\ pc'[p] = "while") =>
                  n_iter_'[p] = n_iter_[p] + 1
           /\ (pc[p] = "after_loop" /\ pc'[p] = "done") =>
                  /\ get_single_model_param(p)'.raised = "none"
                  /\ get_single_model_param(p)'.iters =
                         (IF LeftByBreak(p) THEN Len(decisions[p]) - 1 ELSE max_iter(p))]_vars

(***************************************************************************)
(* encoded_batch_num (RerunSpec).                                          *)
(***************************************************************************)
\* p is in a batch step of the loop
InBatchStep(p) == pc[p] \in {"cal_prediction", "compute_gradient", "review_models"}

\* C25: at every batch step of fit_binary, in the first run on an object and
\* in any later one, encoded_batch_num has one entry per batch of the run and
\* entry i is the encoded reciprocal of the size of batch i.
C25_BatchNumPerRun ==
    \A p \in Roles :
        InBatchStep(p) =>
            /\ Len(encoded_batch_num[p]) = numBatches
            /\ \A i \in 1..numBatches :
                   encoded_batch_num[p][i] = EncodeReciprocal(batch_counts[i])

(***************************************************************************)
(* share_init_model (ShareSpec).                                           *)
(***************************************************************************)
\* share_init_model has returned on p and no batch step has changed its result
ShareInitDone(p) == pc[p] = "encode_batches"

\* v is what from_source kept of p's own weights: with the share p sent it
\* adds up to the encoding of w
KeptShare(p, v) ==
    /\ sent[p] # << >>
    /\ VecAdd(v, sent[p][1].val) = Encode(w[p][1])

\* v is the share of the peer's weights that p received
ReceivedShare(p, v) ==
    /\ sent[Peer(p)] # << >>
    /\ v = sent[Peer(p)][1].val

\* C11: once both parties have run share_init_model, for each party p the
\* share p keeps as w_self plus the share its peer holds as w_remote is the
\* encoding of p's plaintext weights modulo the field, whatever the weights;
\* p has sent one message, under the name of its own vector, and its value is
\* the random share the peer now holds, not a function of the weights.
C11_ShareInvariant ==
    (\A p \in Roles : ShareInitDone(p)) =>
        \A p \in Roles :
            /\ VecAdd(w_self[p][1], w_remote[Peer(p)][1]) = Encode(w[p][1])
            /\ w[p][1] = initializer[p]
            /\ Len(sent[p]) = 1
            /\ sent[p][1].tag = TensorTag(OwnName(p), InitShareIter)
            /\ sent[p][1].val = w_remote[Peer(p)][1]
            /\ sent[p][1].val \in RandomMasks(dim[p])

C11_Witness ==
    /\ \A p \in Roles : ShareInitDone(p)
    /\ w[GUEST] = Some(<< 1, 1 >>)
    /\ w[HOST] = Some(<< 0, 1, 1 >>)
    /\ w_self[GUEST] # w[GUEST]

\* C12 as stated: share_init_model returns (share of own weights, share of the
\* peer's weights) on GUEST and (share of the peer's weights, share of own
\* weights) on HOST.
C12_RoleSwappedOrder ==
    /\ ShareInitDone(GUEST) =>
           KeptShare(GUEST, w_self[GUEST][1]) /\ ReceivedShare(GUEST, w_remote[GUEST][1])
    /\ ShareInitDone(HOST) =>
           ReceivedShare(HOST, w_self[HOST][1]) /\ KeptShare(HOST, w_remote[HOST][1])

\* C12, amended: on both roles share_init_model returns (share of own
\* weights, share of the peer's weights), which fit_binary binds to (w_self,
\* w_remote); the order is swapped only in the tensor names: (wb, wa) on
\* GUEST, (wa, wb) on HOST.
C12_OwnShareFirst ==
    \A p \in Roles :
        ShareInitDone(p) =>
            /\ KeptShare(p, w_self[p][1])
            /\ ReceivedShare(p, w_remote[p][1])
            /\ Len(w_self[p][1]) = dim[p]
            /\ Len(w_remote[p][1]) = dim[Peer(p)]
            /\ sent[p][1].tag = TensorTag(OwnName(p), InitShareIter)
            /\ rcvd[p] = << TensorTag(OwnName(Peer(p)), InitShareIter) >>

C12_Witness ==
    /\ ShareInitDone(HOST)
    /\ dim[HOST] = 3
    /\ dim[GUEST] = 1
    /\ Len(w_self[HOST][1]) = 3
====
